---- MODULE Spec2Model ----
(***************************************************************************)
(* Pipeline provisioning of the CI/CD orchestration module                 *)
(* (src/modules_cicd_orchestration.py): the quick-create form              *)
(* (render_quick_create), the provisioner (create_pipeline) and the cloud  *)
(* provider's resources that the provisioner creates.                      *)
(*                                                                         *)
(* A run of create_pipeline is a sequence of remote calls.  Each remote    *)
(* call is one action: the call, the provider's answer (success or an      *)
(* exception), the handler the code has around the call, and the local     *)
(* statements up to the next remote call (progress updates, sleeps, the    *)
(* return and what the form does with the returned pair).                  *)
(***************************************************************************)
EXTENDS Integers, Sequences, FiniteSets, TLC

\* ------------------------------------------------------------------ bounds
\* Number of create_pipeline runs started in a behaviour.
MaxRuns == 1

\* ------------------------------------------------------------- input sets
\* Browser sessions (one script thread each); Spec has the first one act.
Sessions == {"u1", "u2"}

\* Python's None.
None == "None"

\* The six template buttons of the form.
Templates ==
    {"python-app", "react-app", "nodejs-api", "java-spring", "docker-app", "static-site"}

\* The options of the "Source Provider" select box.
SourceProviders == {"CodeCommit", "GitHub", "S3"}

\* The options of the "Deploy To" select box.
DeployTargets ==
    {"S3 (Static)", "Elastic Beanstalk", "ECS", "Lambda", "None (Build only)"}

\* The options of "Deploy To" that the modelled operator picks from.
DeployChoices == {"S3 (Static)", "None (Build only)"}

\* Regions the module can be opened in (the selected region of the session).
Regions == {"us-east-1", "eu-west-1"}

\* Texts typed into the "Pipeline Name" input: empty, or a name.
PipelineNames == {"", "demo-svc"}

\* Texts typed into "Repository URL" and "GitHub Token": empty or not.
RepoUrls == {"", "https://github.com/user/repo"}
GitHubTokens == {"", "ghp_token"}

\* ------------------------------------------------------------- exceptions
Ok == "ok"
EntityAlreadyExistsException == "EntityAlreadyExistsException"
ResourceAlreadyExistsException == "ResourceAlreadyExistsException"
RepositoryNameExistsException == "RepositoryNameExistsException"
PipelineNameInUseException == "PipelineNameInUseException"
BucketAlreadyOwnedByYou == "BucketAlreadyOwnedByYou"
\* Any other error of the provider or of the transport (access denied,
\* throttling, time-out, ...).
ClientError == "ClientError"

VARIABLES
    \* the provider's resources (account and region of the session)
    roles,           \* names of the IAM roles
    attached,        \* <<role name, policy arn>> attachments
    buckets,         \* names of the S3 buckets
    versioned,       \* names of the buckets with versioning enabled
    projects,        \* CodeBuild projects: [name, buildspec, serviceRole]
    repos,           \* names of the CodeCommit repositories
    pipelines,       \* CodePipeline pipelines: [name, roleArn, location]
    \* the region selected in the sidebar
    region,
    \* wall clock, in whole seconds
    now,
    \* number of create_pipeline runs started
    runs,
    \* per session
    quick_template,  \* st.session_state['quick_template']
    form,            \* the values of the form's widgets at the last submit
    banner,          \* the message the form shows (st.error / st.success)
    pc,              \* position of the session's script
    req,             \* arguments of the running create_pipeline call
    bucket_name,     \* local bucket_name of create_pipeline
    calls,           \* remote calls of the run: <<operation, arguments, outcome>>
    progress,        \* values passed to progress.progress(), in order
    result,          \* the pair create_pipeline returned
    \* the views
    instances,       \* the provider's EC2 instances, as listed: [instance_id, name, state, environment]
    screen,          \* what the last render of a view put on the page
    view_calls,      \* remote calls of that render: [op, arg, error]
    earlier_data,    \* a render before the last one showed a table or metrics
    session,         \* what the last render of a module was given and obtained
    inputs,          \* the values of the widgets of Instance Management at its last render
    ai               \* FinOps: the deployment's API keys, the cached client, the last AI call

cloud == <<roles, attached, buckets, versioned, projects, repos, pipelines>>
local == <<quick_template, form, banner, pc, req, bucket_name, calls, progress, result>>
views == <<instances, screen, view_calls, earlier_data, session, inputs, ai>>
vars == <<cloud, region, now, runs, local, views>>

\* ------------------------------------------------------- names and values
\* f"{pipeline_name}-pipeline-role"
PipelineRoleName(pipeline_name) == pipeline_name \o "-pipeline-role"

\* f"{pipeline_name}-build-role"
BuildRoleName(pipeline_name) == pipeline_name \o "-build-role"

\* f"{pipeline_name}-build"
BuildProjectName(pipeline_name) == pipeline_name \o "-build"

\* f"{pipeline_name}-artifacts-{int(time.time())}"
BucketName(pipeline_name, t) == pipeline_name \o "-artifacts-" \o ToString(t)

\* f"Repository for {pipeline_name}"
RepositoryDescription(pipeline_name) == "Repository for " \o pipeline_name

\* The managed policies attached to the two roles.
PipelinePolicyArn == "arn:aws:iam::aws:policy/AWSCodePipelineFullAccess"
BuildPolicyArn == "arn:aws:iam::aws:policy/AWSCodeBuildAdminAccess"

\* The service principals of the two roles' trust policies.
PipelinePrincipal == "codepipeline.amazonaws.com"
BuildPrincipal == "codebuild.amazonaws.com"

\* get_role(...)['Role']['Arn']: the provider's ARN of a role.
RoleArn(role_name) == "arn:aws:iam::role/" \o role_name

\* The build scripts of get_buildspec, named by what they run.
buildspecs ==
    [t \in {"python-app", "nodejs-api", "static-site"} |->
        CASE t = "python-app" -> "python 3.11: pip install -r requirements.txt; python -m pytest"
          [] t = "nodejs-api" -> "nodejs 18: npm install; npm test"
          [] t = "static-site" -> "echo Building static site"]

\* Mutant of get_buildspec: a template without a script of its own gets none.
get_buildspec_NoDefault(template_type) ==
    IF template_type \in {"python-app", "nodejs-api", "static-site"}
    THEN CASE template_type = "python-app" -> "python 3.11: pip install -r requirements.txt; python -m pytest"
           [] template_type = "nodejs-api" -> "nodejs 18: npm install; npm test"
           [] template_type = "static-site" -> "echo Building static site"
    ELSE None

\* buildspecs.get(template_type, buildspecs['static-site'])
get_buildspec(template_type) ==
    IF template_type \in DOMAIN buildspecs
    THEN buildspecs[template_type]
    ELSE buildspecs["static-site"]

\* ------------------------------------------------------------------ form
\* The values the form's widgets can hold when it is submitted.  The widgets
\* of the source section depend on the provider chosen; a widget that is not
\* rendered has no value (None; FALSE for the check box, which is then never
\* read).  listed: whether list_repositories answered.
FormValues(listed) ==
    LET Widgets(name, target, source, create, repo, branch, url, token) ==
            [pipeline_name |-> name, source_provider |-> source,
             create_new |-> create, repo_name |-> repo, branch_name |-> branch,
             repo_url |-> url, github_token |-> token, deploy_target |-> target]
    IN  UNION { UNION {
            \* CodeCommit: a new repository named in a text input (its default
            \* is the pipeline name), or one of the listed repositories
            { Widgets(n, d, "CodeCommit", TRUE, n, "main", None, None) }
            \cup { Widgets(n, d, "CodeCommit", FALSE, r, "main", None, None) :
                     r \in IF listed THEN repos ELSE {} }
            \* GitHub: URL, branch and token
            \cup { Widgets(n, d, "GitHub", FALSE, None, "main", u, t) :
                     u \in RepoUrls, t \in GitHubTokens }
            \* S3: no widget
            \cup { Widgets(n, d, "S3", FALSE, None, None, None, None) }
          : d \in DeployChoices } : n \in PipelineNames }

\* Mutant of Validate: the token is not checked.
Validate_TokenUnchecked(f) ==
    IF f.pipeline_name = ""
    THEN "Pipeline name required"
    ELSE IF f.source_provider = "GitHub" /\ f.repo_url = ""
    THEN "GitHub URL and token required"
    ELSE Ok

\* Mutant of Validate: the pipeline name is not checked.
Validate_NameUnchecked(f) ==
    IF f.source_provider = "GitHub" /\ (f.repo_url = "" \/ f.github_token = "")
    THEN "GitHub URL and token required"
    ELSE Ok

\* The checks made when the form is submitted: the message of st.error, or
\* Ok when create_pipeline is called.
Validate(f) ==
    IF f.pipeline_name = ""
    THEN "Pipeline name required"
    ELSE IF f.source_provider = "GitHub" /\ (f.repo_url = "" \/ f.github_token = "")
    THEN "GitHub URL and token required"
    ELSE Ok

\* The source_config argument built by the form.
SourceConfig(f) ==
    [repo_name |-> IF f.source_provider = "CodeCommit" THEN f.repo_name ELSE None,
     branch |-> IF f.source_provider # "S3" THEN f.branch_name ELSE None,
     create_repo |-> IF f.source_provider = "CodeCommit" THEN f.create_new ELSE FALSE]

\* The arguments of the create_pipeline call made by the form.
Request(f, template_type, selected_region) ==
    [pipeline_name |-> f.pipeline_name,
     template_type |-> template_type,
     source_provider |-> f.source_provider,
     source_config |-> SourceConfig(f),
     deploy_target |-> f.deploy_target,
     region |-> selected_region]

NoForm ==
    [pipeline_name |-> None, source_provider |-> None, create_new |-> FALSE,
     repo_name |-> None, branch_name |-> None, repo_url |-> None,
     github_token |-> None, deploy_target |-> None]
NoRequest == [pipeline_name |-> None]
NoResult == <<>>

\* --------------------------------------------------------------- provider
\* What the provider can answer to a call that creates the resource `name`
\* of a kind whose names are unique: the resource is created unless the name
\* is taken, and any call can fail for another reason.
CreateOutcomes(name, existing, taken) ==
    IF name \in existing THEN {taken, ClientError} ELSE {Ok, ClientError}

\* create_bucket on a bucket the account already owns: the provider answers
\* success (the bucket stays as it is) or BucketAlreadyOwnedByYou, by region.
CreateBucketOutcomes(name) ==
    IF name \in buckets
    THEN {Ok, BucketAlreadyOwnedByYou, ClientError}
    ELSE {Ok, ClientError}

\* A call on an existing resource: it succeeds or fails for another reason.
CallOutcomes == {Ok, ClientError}

\* get_role: the role is returned if it exists.
GetRoleOutcomes(name) ==
    IF name \in roles THEN {Ok, ClientError} ELSE {"NoSuchEntityException"}

\* ------------------------------------------------- create_pipeline: handlers
\* Mutant of RoleStepTolerates: the role steps have no handler.
RoleStepTolerates_Nothing(e) == FALSE

\* except iam_client.exceptions.EntityAlreadyExistsException: pass
RoleStepTolerates(e) == e = EntityAlreadyExistsException

\* Mutant of BucketStepTolerates: only "already owned" is ignored.
BucketStepTolerates_OnlyOwned(e) == e = BucketAlreadyOwnedByYou

\* except Exception as e: pass
BucketStepTolerates(e) == TRUE

\* Mutant of ProjectStepTolerates: the project step has no handler.
ProjectStepTolerates_Nothing(e) == FALSE

\* Mutant of ProjectStepTolerates: the project step ignores every exception,
\* as the bucket step does.
ProjectStepTolerates_Everything(e) == TRUE

\* except cb_client.exceptions.ResourceAlreadyExistsException: pass
ProjectStepTolerates(e) == e = ResourceAlreadyExistsException

\* Mutant of RepositoryStepTolerates: the repository step has no handler.
RepositoryStepTolerates_Nothing(e) == FALSE

\* except codecommit_client.exceptions.RepositoryNameExistsException: pass
RepositoryStepTolerates(e) == e = RepositoryNameExistsException

\* Mutant of Failure: the name conflict has no handler of its own.
Failure_NoNameInUseHandler(e) == <<FALSE, e>>

\* Mutant of Failure: the name conflict is taken for "already there", as in
\* the other steps, and reported as success.
Failure_NameInUseIsSuccess(e) ==
    IF e = PipelineNameInUseException
    THEN <<TRUE, "Success">>
    ELSE <<FALSE, e>>

\* except cp_client.exceptions.PipelineNameInUseException: return False, "..."
\* and, around the whole body, except Exception as e: return False, str(e)
Failure(e) ==
    IF e = PipelineNameInUseException
    THEN <<FALSE, "Pipeline name already exists">>
    ELSE <<FALSE, e>>

\* except Exception as e: return False, str(e), for an exception that no
\* inner handler caught
Propagated(e) == <<FALSE, e>>

\* if source_provider == "CodeCommit" and source_config.get('create_repo')
CreatesRepository(r) ==
    r.source_provider = "CodeCommit" /\ r.source_config.create_repo

\* Mutant of ProgressOf: the build step reports the bucket step's value.
ProgressOf_BuildRepeatsBucket(step) ==
    CASE step = "roles" -> 20
      [] step = "bucket" -> 40
      [] step = "build" -> 40
      [] step = "repository" -> 80
      [] step = "pipeline" -> 100

\* Mutant of ProgressOf: the repository step reports a value below the build
\* step's.
ProgressOf_RepositoryBackward(step) ==
    CASE step = "roles" -> 20
      [] step = "bucket" -> 40
      [] step = "build" -> 60
      [] step = "repository" -> 50
      [] step = "pipeline" -> 100

\* The value of progress.progress() at the end of each step.
ProgressOf(step) ==
    CASE step = "roles" -> 20
      [] step = "bucket" -> 40
      [] step = "build" -> 60
      [] step = "repository" -> 80
      [] step = "pipeline" -> 100

\* ------------------------------------------------- create_pipeline: steps
Running ==
    {"create_pipeline_role", "attach_pipeline_policy", "create_bucket",
     "put_bucket_versioning", "create_build_role", "attach_build_policy",
     "get_build_role", "create_project", "create_repository",
     "get_pipeline_role", "create_pipeline"}

\* The remote call is recorded with its outcome.
Called(s, op, args, out) ==
    calls' = [calls EXCEPT ![s] = Append(@, <<op, args, out>>)]

\* The run goes on to the remote call `next`, after the progress updates `ps`.
Continue(s, ps, next) ==
    /\ pc' = [pc EXCEPT ![s] = next]
    /\ progress' = [progress EXCEPT ![s] = @ \o ps]
    /\ UNCHANGED <<result, banner, quick_template>>

\* Mutant of Return: the bar is filled whenever the run returns.
Return_FillsBar(s, pair, ps) ==
    /\ pc' = [pc EXCEPT ![s] = "done"]
    /\ progress' = [progress EXCEPT ![s] = IF pair[1] THEN @ \o ps ELSE @ \o ps \o <<100>>]
    /\ result' = [result EXCEPT ![s] = pair]
    /\ banner' = [banner EXCEPT ![s] =
            IF pair[1] THEN "Pipeline created successfully!"
            ELSE "Failed to create pipeline: " \o pair[2]]
    /\ quick_template' = [quick_template EXCEPT ![s] = IF pair[1] THEN None ELSE @]

\* Mutant of Return: the template is forgotten whenever the run returns.
Return_ForgetsTemplate(s, pair, ps) ==
    /\ pc' = [pc EXCEPT ![s] = "done"]
    /\ progress' = [progress EXCEPT ![s] = @ \o ps]
    /\ result' = [result EXCEPT ![s] = pair]
    /\ banner' = [banner EXCEPT ![s] =
            IF pair[1] THEN "Pipeline created successfully!"
            ELSE "Failed to create pipeline: " \o pair[2]]
    /\ quick_template' = [quick_template EXCEPT ![s] = None]

\* create_pipeline returns `pair`, and the form shows the outcome: on success
\* it resets quick_template.
Return(s, pair, ps) ==
    /\ pc' = [pc EXCEPT ![s] = "done"]
    /\ progress' = [progress EXCEPT ![s] = @ \o ps]
    /\ result' = [result EXCEPT ![s] = pair]
    /\ banner' = [banner EXCEPT ![s] =
            IF pair[1] THEN "Pipeline created successfully!"
            ELSE "Failed to create pipeline: " \o pair[2]]
    /\ quick_template' = [quick_template EXCEPT ![s] = IF pair[1] THEN None ELSE @]

\* Mutant of AfterBuild: the repository step is never taken.
AfterBuild_SkipsRepository(s) ==
    Continue(s, <<ProgressOf("build"), ProgressOf("repository")>>, "get_pipeline_role")

\* Where the run goes after the build step: to the repository step if the
\* request asks for a repository, else past it.
AfterBuild(s) ==
    IF CreatesRepository(req[s])
    THEN Continue(s, <<ProgressOf("build")>>, "create_repository")
    ELSE Continue(s, <<ProgressOf("build"), ProgressOf("repository")>>, "get_pipeline_role")

\* Step 1: iam_client.create_role for the pipeline role.
CreatePipelineRole(s) ==
    /\ pc[s] = "create_pipeline_role"
    /\ LET name == PipelineRoleName(req[s].pipeline_name) IN
       \E out \in CreateOutcomes(name, roles, EntityAlreadyExistsException) :
          /\ Called(s, "create_role", <<name, PipelinePrincipal>>, out)
          /\ roles' = IF out = Ok THEN roles \cup {name} ELSE roles
          /\ IF out = Ok
             THEN Continue(s, <<>>, "attach_pipeline_policy")
             ELSE IF RoleStepTolerates(out)
             THEN Continue(s, <<ProgressOf("roles")>>, "create_bucket")
             ELSE Return(s, Propagated(out), <<>>)
    /\ UNCHANGED <<attached, buckets, versioned, projects, repos, pipelines>>
    /\ UNCHANGED <<views, region, now, runs, form, req, bucket_name>>

\* Step 1: iam_client.attach_role_policy for the pipeline role, then
\* time.sleep(2).
AttachPipelinePolicy(s) ==
    /\ pc[s] = "attach_pipeline_policy"
    /\ LET name == PipelineRoleName(req[s].pipeline_name) IN
       \E out \in CallOutcomes :
          /\ Called(s, "attach_role_policy", <<name, PipelinePolicyArn>>, out)
          /\ attached' = IF out = Ok THEN attached \cup {<<name, PipelinePolicyArn>>} ELSE attached
          /\ now' = IF out = Ok THEN now + 2 ELSE now
          /\ IF out = Ok \/ RoleStepTolerates(out)
             THEN Continue(s, <<ProgressOf("roles")>>, "create_bucket")
             ELSE Return(s, Propagated(out), <<>>)
    /\ UNCHANGED <<roles, buckets, versioned, projects, repos, pipelines>>
    /\ UNCHANGED <<views, region, runs, form, req, bucket_name>>

\* Step 2: bucket_name is set from the clock, then s3_client.create_bucket
\* (with a LocationConstraint outside us-east-1).
CreateBucket(s) ==
    /\ pc[s] = "create_bucket"
    /\ LET name == BucketName(req[s].pipeline_name, now)
           args == IF req[s].region = "us-east-1" THEN <<name>> ELSE <<name, req[s].region>>
       IN
       /\ bucket_name' = [bucket_name EXCEPT ![s] = name]
       /\ \E out \in CreateBucketOutcomes(name) :
          /\ Called(s, "create_bucket", args, out)
          /\ buckets' = IF out = Ok THEN buckets \cup {name} ELSE buckets
          /\ IF out = Ok
             THEN Continue(s, <<>>, "put_bucket_versioning")
             ELSE IF BucketStepTolerates(out)
             THEN Continue(s, <<ProgressOf("bucket")>>, "create_build_role")
             ELSE Return(s, Propagated(out), <<>>)
    /\ UNCHANGED <<roles, attached, versioned, projects, repos, pipelines>>
    /\ UNCHANGED <<views, region, now, runs, form, req>>

\* Mutant of PutBucketVersioning: a failed call sends the run back to
\* s3_client.create_bucket.
PutBucketVersioning_RetriesBucket(s) ==
    /\ pc[s] = "put_bucket_versioning"
    /\ \E out \in CallOutcomes :
          /\ Called(s, "put_bucket_versioning", <<bucket_name[s], "Enabled">>, out)
          /\ versioned' = IF out = Ok THEN versioned \cup {bucket_name[s]} ELSE versioned
          /\ IF out = Ok
             THEN Continue(s, <<ProgressOf("bucket")>>, "create_build_role")
             ELSE Continue(s, <<>>, "create_bucket")
    /\ UNCHANGED <<roles, attached, buckets, projects, repos, pipelines>>
    /\ UNCHANGED <<views, region, now, runs, form, req, bucket_name>>

\* Step 2: s3_client.put_bucket_versioning.
PutBucketVersioning(s) ==
    /\ pc[s] = "put_bucket_versioning"
    /\ \E out \in CallOutcomes :
          /\ Called(s, "put_bucket_versioning", <<bucket_name[s], "Enabled">>, out)
          /\ versioned' = IF out = Ok THEN versioned \cup {bucket_name[s]} ELSE versioned
          /\ IF out = Ok \/ BucketStepTolerates(out)
             THEN Continue(s, <<ProgressOf("bucket")>>, "create_build_role")
             ELSE Return(s, Propagated(out), <<>>)
    /\ UNCHANGED <<roles, attached, buckets, projects, repos, pipelines>>
    /\ UNCHANGED <<views, region, now, runs, form, req, bucket_name>>

\* Step 3: iam_client.create_role for the build role.
CreateBuildRole(s) ==
    /\ pc[s] = "create_build_role"
    /\ LET name == BuildRoleName(req[s].pipeline_name) IN
       \E out \in CreateOutcomes(name, roles, EntityAlreadyExistsException) :
          /\ Called(s, "create_role", <<name, BuildPrincipal>>, out)
          /\ roles' = IF out = Ok THEN roles \cup {name} ELSE roles
          /\ IF out = Ok
             THEN Continue(s, <<>>, "attach_build_policy")
             ELSE IF RoleStepTolerates(out)
             THEN Continue(s, <<>>, "get_build_role")
             ELSE Return(s, Propagated(out), <<>>)
    /\ UNCHANGED <<attached, buckets, versioned, projects, repos, pipelines>>
    /\ UNCHANGED <<views, region, now, runs, form, req, bucket_name>>

\* Step 3: iam_client.attach_role_policy for the build role, then
\* time.sleep(2).
AttachBuildPolicy(s) ==
    /\ pc[s] = "attach_build_policy"
    /\ LET name == BuildRoleName(req[s].pipeline_name) IN
       \E out \in CallOutcomes :
          /\ Called(s, "attach_role_policy", <<name, BuildPolicyArn>>, out)
          /\ attached' = IF out = Ok THEN attached \cup {<<name, BuildPolicyArn>>} ELSE attached
          /\ now' = IF out = Ok THEN now + 2 ELSE now
          /\ IF out = Ok \/ RoleStepTolerates(out)
             THEN Continue(s, <<>>, "get_build_role")
             ELSE Return(s, Propagated(out), <<>>)
    /\ UNCHANGED <<roles, buckets, versioned, projects, repos, pipelines>>
    /\ UNCHANGED <<views, region, runs, form, req, bucket_name>>

\* Step 3: iam_client.get_role for the build role (outside any inner handler).
GetBuildRole(s) ==
    /\ pc[s] = "get_build_role"
    /\ LET name == BuildRoleName(req[s].pipeline_name) IN
       \E out \in GetRoleOutcomes(name) :
          /\ Called(s, "get_role", <<name>>, out)
          /\ IF out = Ok
             THEN Continue(s, <<>>, "create_project")
             ELSE Return(s, Propagated(out), <<>>)
    /\ UNCHANGED <<cloud, views, region, now, runs, form, req, bucket_name>>

\* Step 3: cb_client.create_project, with the template's build script and the
\* build role's ARN.
CreateProject(s) ==
    /\ pc[s] = "create_project"
    /\ LET name == BuildProjectName(req[s].pipeline_name)
           buildspec == get_buildspec(req[s].template_type)
           build_role_arn == RoleArn(BuildRoleName(req[s].pipeline_name))
       IN
       \E out \in CreateOutcomes(name, {p.name : p \in projects}, ResourceAlreadyExistsException) :
          /\ Called(s, "create_project", <<name, buildspec, build_role_arn>>, out)
          /\ projects' = IF out = Ok
                         THEN projects \cup {[name |-> name, buildspec |-> buildspec,
                                              serviceRole |-> build_role_arn]}
                         ELSE projects
          /\ IF out = Ok \/ ProjectStepTolerates(out)
             THEN AfterBuild(s)
             ELSE Return(s, Propagated(out), <<>>)
    /\ UNCHANGED <<roles, attached, buckets, versioned, repos, pipelines>>
    /\ UNCHANGED <<views, region, now, runs, form, req, bucket_name>>

\* Step 4: codecommit_client.create_repository.
CreateRepository(s) ==
    /\ pc[s] = "create_repository"
    /\ LET name == req[s].source_config.repo_name IN
       \E out \in CreateOutcomes(name, repos, RepositoryNameExistsException) :
          /\ Called(s, "create_repository",
                    <<name, RepositoryDescription(req[s].pipeline_name)>>, out)
          /\ repos' = IF out = Ok THEN repos \cup {name} ELSE repos
          /\ IF out = Ok \/ RepositoryStepTolerates(out)
             THEN Continue(s, <<ProgressOf("repository")>>, "get_pipeline_role")
             ELSE Return(s, Propagated(out), <<>>)
    /\ UNCHANGED <<roles, attached, buckets, versioned, projects, pipelines>>
    /\ UNCHANGED <<views, region, now, runs, form, req, bucket_name>>

\* Step 5: iam_client.get_role for the pipeline role (outside any inner
\* handler).
GetPipelineRole(s) ==
    /\ pc[s] = "get_pipeline_role"
    /\ LET name == PipelineRoleName(req[s].pipeline_name) IN
       \E out \in GetRoleOutcomes(name) :
          /\ Called(s, "get_role", <<name>>, out)
          /\ IF out = Ok
             THEN Continue(s, <<>>, "create_pipeline")
             ELSE Return(s, Propagated(out), <<>>)
    /\ UNCHANGED <<cloud, views, region, now, runs, form, req, bucket_name>>

\* Mutant of Stages: a Deploy stage follows the Build stage when the request
\* names a deploy target.
Stages_WithDeployStage(r) ==
    << [name |-> "Source",
        category |-> "Source",
        provider |-> "CodeCommit",
        configuration |-> <<r.source_config.repo_name, r.source_config.branch>>,
        inputArtifacts |-> <<>>,
        outputArtifacts |-> <<"SourceOutput">>],
       [name |-> "Build",
        category |-> "Build",
        provider |-> "CodeBuild",
        configuration |-> <<BuildProjectName(r.pipeline_name)>>,
        inputArtifacts |-> <<"SourceOutput">>,
        outputArtifacts |-> <<"BuildOutput">>] >>
    \o (IF r.deploy_target = "None (Build only)" THEN <<>>
        ELSE <<[name |-> "Deploy",
                category |-> "Deploy",
                provider |-> r.deploy_target,
                configuration |-> <<r.pipeline_name>>,
                inputArtifacts |-> <<"BuildOutput">>,
                outputArtifacts |-> <<>>]>>)

\* Mutant of Stages: the Source action's provider follows the form's source.
Stages_ProviderFromSource(r) ==
    << [name |-> "Source",
        category |-> "Source",
        provider |-> r.source_provider,
        configuration |-> <<r.source_config.repo_name, r.source_config.branch>>,
        inputArtifacts |-> <<>>,
        outputArtifacts |-> <<"SourceOutput">>],
       [name |-> "Build",
        category |-> "Build",
        provider |-> "CodeBuild",
        configuration |-> <<BuildProjectName(r.pipeline_name)>>,
        inputArtifacts |-> <<"SourceOutput">>,
        outputArtifacts |-> <<"BuildOutput">>] >>

\* The two stages of the pipeline definition.
Stages(r) ==
    << [name |-> "Source",
        category |-> "Source",
        provider |-> "CodeCommit",
        configuration |-> <<r.source_config.repo_name, r.source_config.branch>>,
        inputArtifacts |-> <<>>,
        outputArtifacts |-> <<"SourceOutput">>],
       [name |-> "Build",
        category |-> "Build",
        provider |-> "CodeBuild",
        configuration |-> <<BuildProjectName(r.pipeline_name)>>,
        inputArtifacts |-> <<"SourceOutput">>,
        outputArtifacts |-> <<"BuildOutput">>] >>

\* Mutant of CreatePipeline: on the name conflict the run's artifact bucket
\* is deleted again.
CreatePipeline_RollsBack(s) ==
    /\ pc[s] = "create_pipeline"
    /\ LET name == req[s].pipeline_name
           pipeline_role_arn == RoleArn(PipelineRoleName(name))
       IN
       \E out \in CreateOutcomes(name, {p.name : p \in pipelines}, PipelineNameInUseException) :
          /\ Called(s, "create_pipeline", <<name, pipeline_role_arn, bucket_name[s], Stages(req[s])>>, out)
          /\ pipelines' = IF out = Ok
                          THEN pipelines \cup {[name |-> name, roleArn |-> pipeline_role_arn,
                                                location |-> bucket_name[s],
                                                stages |-> Stages(req[s])]}
                          ELSE pipelines
          /\ buckets' = IF out = PipelineNameInUseException
                        THEN buckets \ {bucket_name[s]}
                        ELSE buckets
          /\ IF out = Ok
             THEN Return(s, <<TRUE, "Success">>, <<ProgressOf("pipeline")>>)
             ELSE Return(s, Failure(out), <<>>)
    /\ UNCHANGED <<roles, attached, versioned, projects, repos>>
    /\ UNCHANGED <<views, region, now, runs, form, req, bucket_name>>

\* Step 5: cp_client.create_pipeline; on success the last progress update and
\* the return of (True, "Success").
CreatePipeline(s) ==
    /\ pc[s] = "create_pipeline"
    /\ LET name == req[s].pipeline_name
           pipeline_role_arn == RoleArn(PipelineRoleName(name))
       IN
       \E out \in CreateOutcomes(name, {p.name : p \in pipelines}, PipelineNameInUseException) :
          /\ Called(s, "create_pipeline", <<name, pipeline_role_arn, bucket_name[s], Stages(req[s])>>, out)
          /\ pipelines' = IF out = Ok
                          THEN pipelines \cup {[name |-> name, roleArn |-> pipeline_role_arn,
                                                location |-> bucket_name[s],
                                                stages |-> Stages(req[s])]}
                          ELSE pipelines
          /\ IF out = Ok
             THEN Return(s, <<TRUE, "Success">>, <<ProgressOf("pipeline")>>)
             ELSE Return(s, Failure(out), <<>>)
    /\ UNCHANGED <<roles, attached, buckets, versioned, projects, repos>>
    /\ UNCHANGED <<views, region, now, runs, form, req, bucket_name>>

\* ------------------------------------------------------------------ form
\* One of the six template buttons is pressed: the script runs again and
\* shows the form for that template.
SelectTemplate(s) ==
    /\ pc[s] \notin Running
    /\ runs < MaxRuns
    /\ \E t \in Templates : quick_template' = [quick_template EXCEPT ![s] = t]
    /\ pc' = [pc EXCEPT ![s] = "idle"]
    /\ form' = [form EXCEPT ![s] = NoForm]
    /\ banner' = [banner EXCEPT ![s] = ""]
    /\ req' = [req EXCEPT ![s] = NoRequest]
    /\ bucket_name' = [bucket_name EXCEPT ![s] = None]
    /\ calls' = [calls EXCEPT ![s] = <<>>]
    /\ progress' = [progress EXCEPT ![s] = <<>>]
    /\ result' = [result EXCEPT ![s] = NoResult]
    /\ UNCHANGED <<cloud, views, region, now, runs>>

\* "Create Pipeline" is pressed on the form; the values do not pass the
\* checks, and the form shows the error.
RejectForm(s) ==
    /\ pc[s] \notin Running
    /\ quick_template[s] # None
    /\ runs < MaxRuns
    /\ \E f \in UNION {FormValues(listed) : listed \in BOOLEAN} :
          /\ Validate(f) # Ok
          /\ form' = [form EXCEPT ![s] = f]
          /\ banner' = [banner EXCEPT ![s] = Validate(f)]
    /\ pc' = [pc EXCEPT ![s] = "idle"]
    /\ req' = [req EXCEPT ![s] = NoRequest]
    /\ bucket_name' = [bucket_name EXCEPT ![s] = None]
    /\ calls' = [calls EXCEPT ![s] = <<>>]
    /\ progress' = [progress EXCEPT ![s] = <<>>]
    /\ result' = [result EXCEPT ![s] = NoResult]
    /\ UNCHANGED <<cloud, views, region, now, runs, quick_template>>

\* The values pass the checks: create_pipeline is called and runs up to its
\* first remote call (the progress bar is created at 0, time.sleep(1)).
StartRun(s, f) ==
    /\ Validate(f) = Ok
    /\ form' = [form EXCEPT ![s] = f]
    /\ req' = [req EXCEPT ![s] = Request(f, quick_template[s], region)]
    /\ runs' = runs + 1
    /\ now' = now + 1
    /\ pc' = [pc EXCEPT ![s] = "create_pipeline_role"]
    /\ banner' = [banner EXCEPT ![s] = ""]
    /\ bucket_name' = [bucket_name EXCEPT ![s] = None]
    /\ calls' = [calls EXCEPT ![s] = <<>>]
    /\ progress' = [progress EXCEPT ![s] = <<>>]
    /\ result' = [result EXCEPT ![s] = NoResult]
    /\ UNCHANGED <<cloud, views, region, quick_template>>

\* "Create Pipeline" is pressed on the form and the values pass the checks.
SubmitForm(s) ==
    /\ pc[s] \notin Running
    /\ quick_template[s] # None
    /\ runs < MaxRuns
    /\ \E f \in UNION {FormValues(listed) : listed \in BOOLEAN} : StartRun(s, f)

\* --------------------------------------------------------------- the page
\* What a render puts on the page: the message of st.error, of st.info and of
\* st.success, the st.metric values <<label, value>>, the rows of the
\* st.dataframe, the options of the select box, and the message a pressed
\* button leaves. (The icons of the texts are left out.)
Page(view, error, info, success, metrics, table, options, action) ==
    [view |-> view, error |-> error, info |-> info, success |-> success,
     metrics |-> metrics, table |-> table, options |-> options, action |-> action]

NoScreen == Page(None, None, None, None, <<>>, <<>>, <<>>, None)

\* No module has asked for a session.
NoSession ==
    [module |-> None, account_mgr |-> FALSE, account_names |-> <<>>,
     selected_account |-> None, requested |-> FALSE, handle |-> FALSE]

\* The widgets of Instance Management at their defaults, no button pressed.
NoButton == [button |-> None, instance_id |-> None]
NoInputs ==
    [selected_env |-> "All", selected_state |-> "All", selected_instance_ids |-> {},
     operation |-> "Start Instances", execute_now |-> FALSE, approval_reason |-> "",
     approval_checkbox |-> FALSE, pressed |-> NoButton]

\* FinOps: a deployment without a secrets file and without the environment
\* variable; no AI function was called yet and no client is cached.
NoKeys == [secrets_file |-> FALSE, nested |-> None, flat |-> None,
           environ |-> None, installed |-> TRUE]
NotCached == "not cached"
NoAi(d) == [deployment |-> d, client |-> NotCached, asked |-> None,
            requests |-> <<>>, output |-> None]

\* No view was rendered yet.
NothingRendered ==
    /\ screen = NoScreen
    /\ view_calls = <<>>
    /\ earlier_data = FALSE
    /\ session = NoSession
    /\ inputs = NoInputs
    /\ ai = NoAi(NoKeys)

\* --------------------------------------------------------- specification
\* A pipeline of the account that was not made by this form.
ForeignPipeline ==
    [name |-> "demo-svc", roleArn |-> RoleArn("console-role"),
     location |-> "console-artifacts", stages |-> <<>>]

\* The request of an earlier provisioning of "demo-svc" with this form.
EarlierRequest ==
    [pipeline_name |-> "demo-svc", template_type |-> "static-site",
     source_provider |-> "CodeCommit",
     source_config |-> [repo_name |-> "demo-svc", branch |-> "main", create_repo |-> TRUE],
     deploy_target |-> "None (Build only)", region |-> None]

\* What an earlier successful provisioning of "demo-svc" at time 0 left.
Provisioned ==
    [roles |-> {PipelineRoleName("demo-svc"), BuildRoleName("demo-svc")},
     attached |-> {<<PipelineRoleName("demo-svc"), PipelinePolicyArn>>,
                   <<BuildRoleName("demo-svc"), BuildPolicyArn>>},
     buckets |-> {BucketName("demo-svc", 0)},
     versioned |-> {BucketName("demo-svc", 0)},
     projects |-> {[name |-> BuildProjectName("demo-svc"),
                    buildspec |-> get_buildspec("static-site"),
                    serviceRole |-> RoleArn(BuildRoleName("demo-svc"))]},
     repos |-> {"demo-svc"},
     pipelines |-> {[name |-> "demo-svc",
                     roleArn |-> RoleArn(PipelineRoleName("demo-svc")),
                     location |-> BucketName("demo-svc", 0),
                     stages |-> Stages(EarlierRequest)]}]

EmptyAccount ==
    [roles |-> {}, attached |-> {}, buckets |-> {}, versioned |-> {},
     projects |-> {}, repos |-> {}, pipelines |-> {}]

\* The account when the session starts: empty; or holding a pipeline made
\* elsewhere; or holding what an earlier provisioning of "demo-svc" left,
\* one that succeeded or one whose last call failed.
InitialAccounts ==
    { EmptyAccount,
      [EmptyAccount EXCEPT !.pipelines = {ForeignPipeline}],
      Provisioned,
      [Provisioned EXCEPT !.pipelines = {}] }

Init ==
    /\ \E a \in InitialAccounts :
          /\ roles = a.roles /\ attached = a.attached
          /\ buckets = a.buckets /\ versioned = a.versioned
          /\ projects = a.projects /\ repos = a.repos
          /\ pipelines = a.pipelines
    /\ region \in Regions
    /\ now = 0
    /\ runs = 0
    /\ quick_template = [s \in Sessions |-> None]
    /\ form = [s \in Sessions |-> NoForm]
    /\ banner = [s \in Sessions |-> ""]
    /\ pc = [s \in Sessions |-> "idle"]
    /\ req = [s \in Sessions |-> NoRequest]
    /\ bucket_name = [s \in Sessions |-> None]
    /\ calls = [s \in Sessions |-> <<>>]
    /\ progress = [s \in Sessions |-> <<>>]
    /\ result = [s \in Sessions |-> NoResult]
    /\ NothingRendered
    /\ instances = <<>>

\* The script of session s takes a step.
Step(s) ==
    \/ SelectTemplate(s)
    \/ RejectForm(s)
    \/ SubmitForm(s)
    \/ CreatePipelineRole(s)
    \/ AttachPipelinePolicy(s)
    \/ CreateBucket(s)
    \/ PutBucketVersioning(s)
    \/ CreateBuildRole(s)
    \/ AttachBuildPolicy(s)
    \/ GetBuildRole(s)
    \/ CreateProject(s)
    \/ CreateRepository(s)
    \/ GetPipelineRole(s)
    \/ CreatePipeline(s)

\* One operator at the dashboard.
Next == Step("u1")

Spec == Init /\ [][Next]_vars

\* -------------------------------------------- two sessions, the same name
\* The forms the two concurrent sessions submit: the one pipeline name, no
\* deploy target, each of the three sources.
ConcurrentForms ==
    {f \in FormValues(FALSE) : f.deploy_target = "None (Build only)"}

\* A session that has not run create_pipeline yet submits its form.
SubmitOnce(s) ==
    /\ pc[s] = "idle"
    /\ \E f \in ConcurrentForms : StartRun(s, f)

\* Both sessions have the form of the same template open on the same account.
InitConcurrent ==
    /\ \E a \in InitialAccounts :
          /\ roles = a.roles /\ attached = a.attached
          /\ buckets = a.buckets /\ versioned = a.versioned
          /\ projects = a.projects /\ repos = a.repos
          /\ pipelines = a.pipelines
    /\ region = "us-east-1"
    /\ now = 0
    /\ runs = 0
    /\ quick_template = [s \in Sessions |-> "static-site"]
    /\ form = [s \in Sessions |-> NoForm]
    /\ banner = [s \in Sessions |-> ""]
    /\ pc = [s \in Sessions |-> "idle"]
    /\ req = [s \in Sessions |-> NoRequest]
    /\ bucket_name = [s \in Sessions |-> None]
    /\ calls = [s \in Sessions |-> <<>>]
    /\ progress = [s \in Sessions |-> <<>>]
    /\ result = [s \in Sessions |-> NoResult]
    /\ NothingRendered
    /\ instances = <<>>

\* Streamlit runs each session's script in a thread of its own: the remote
\* calls of the two runs interleave in any order.
ConcurrentStep(s) ==
    \/ SubmitOnce(s)
    \/ CreatePipelineRole(s)
    \/ AttachPipelinePolicy(s)
    \/ CreateBucket(s)
    \/ PutBucketVersioning(s)
    \/ CreateBuildRole(s)
    \/ AttachBuildPolicy(s)
    \/ GetBuildRole(s)
    \/ CreateProject(s)
    \/ CreateRepository(s)
    \/ GetPipelineRole(s)
    \/ CreatePipeline(s)

NextConcurrent == \E s \in Sessions : ConcurrentStep(s)

SpecConcurrent == InitConcurrent /\ [][NextConcurrent]_vars

\* ------------------------------------------------ one run after another
\* A remote call of session s's run of create_pipeline.
RunStep(s) ==
    \/ CreatePipelineRole(s)
    \/ AttachPipelinePolicy(s)
    \/ CreateBucket(s)
    \/ PutBucketVersioning(s)
    \/ CreateBuildRole(s)
    \/ AttachBuildPolicy(s)
    \/ GetBuildRole(s)
    \/ CreateProject(s)
    \/ CreateRepository(s)
    \/ GetPipelineRole(s)
    \/ CreatePipeline(s)

\* Session s submits its form once the run of session t has returned.
SubmitAfter(s, t) ==
    /\ pc[t] = "done"
    /\ SubmitOnce(s)

\* Both sessions have the form of the same template open, on an account
\* without roles.
InitSuccessive ==
    /\ \E a \in {b \in InitialAccounts : b.roles = {}} :
          /\ roles = a.roles /\ attached = a.attached
          /\ buckets = a.buckets /\ versioned = a.versioned
          /\ projects = a.projects /\ repos = a.repos
          /\ pipelines = a.pipelines
    /\ region = "us-east-1"
    /\ now = 0
    /\ runs = 0
    /\ quick_template = [s \in Sessions |-> "static-site"]
    /\ form = [s \in Sessions |-> NoForm]
    /\ banner = [s \in Sessions |-> ""]
    /\ pc = [s \in Sessions |-> "idle"]
    /\ req = [s \in Sessions |-> NoRequest]
    /\ bucket_name = [s \in Sessions |-> None]
    /\ calls = [s \in Sessions |-> <<>>]
    /\ progress = [s \in Sessions |-> <<>>]
    /\ result = [s \in Sessions |-> NoResult]
    /\ NothingRendered
    /\ instances = <<>>

\* Two runs of create_pipeline, the second started after the first returned.
NextSuccessive ==
    \/ SubmitOnce("u1")
    \/ SubmitAfter("u2", "u1")
    \/ \E s \in Sessions : RunStep(s)

SpecSuccessive == InitSuccessive /\ [][NextSuccessive]_vars

\* --------------------------------- the same run with another deploy target
\* The accounts the compared runs start on: an empty one, and one holding
\* what an earlier provisioning of "demo-svc" left without its pipeline.
TwinAccounts == {EmptyAccount, [Provisioned EXCEPT !.pipelines = {}]}

\* The account the behaviour started on (a run's bucket is never the one of
\* time 0, and no bucket is deleted).
StartedOn ==
    CHOOSE a \in TwinAccounts : BucketName("demo-svc", 0) \in buckets <=> a.buckets # {}

\* Setting of the comparison: the run of session t has returned, and the
\* provider and the clock are put back to where that run started, for the run
\* of session s it is compared with.
SameProviderAndTime(s, t) ==
    /\ pc[t] = "done"
    /\ pc[s] = "idle"
    /\ now # 0
    /\ roles' = StartedOn.roles /\ attached' = StartedOn.attached
    /\ buckets' = StartedOn.buckets /\ versioned' = StartedOn.versioned
    /\ projects' = StartedOn.projects /\ repos' = StartedOn.repos
    /\ pipelines' = StartedOn.pipelines
    /\ now' = 0
    /\ UNCHANGED <<region, runs, local, views>>

\* Session s submits the values session t submitted, with another option of
\* the "Deploy To" select box.
SubmitTwin(s, t) ==
    /\ pc[t] = "done"
    /\ now = 0
    /\ pc[s] = "idle"
    /\ \E d \in DeployTargets \ {form[t].deploy_target} :
          StartRun(s, [form[t] EXCEPT !.deploy_target = d])

\* Both sessions have the form of the same template open.
InitTwin ==
    /\ \E a \in TwinAccounts :
          /\ roles = a.roles /\ attached = a.attached
          /\ buckets = a.buckets /\ versioned = a.versioned
          /\ projects = a.projects /\ repos = a.repos
          /\ pipelines = a.pipelines
    /\ region = "eu-west-1"
    /\ now = 0
    /\ runs = 0
    /\ quick_template = [s \in Sessions |-> "nodejs-api"]
    /\ form = [s \in Sessions |-> NoForm]
    /\ banner = [s \in Sessions |-> ""]
    /\ pc = [s \in Sessions |-> "idle"]
    /\ req = [s \in Sessions |-> NoRequest]
    /\ bucket_name = [s \in Sessions |-> None]
    /\ calls = [s \in Sessions |-> <<>>]
    /\ progress = [s \in Sessions |-> <<>>]
    /\ result = [s \in Sessions |-> NoResult]
    /\ NothingRendered
    /\ instances = <<>>

\* A run of create_pipeline, and then the run of the same values with
\* another deploy target from the same provider state at the same time.
NextTwin ==
    \/ SubmitOnce("u1")
    \/ SameProviderAndTime("u2", "u1")
    \/ SubmitTwin("u2", "u1")
    \/ \E s \in Sessions : RunStep(s)

SpecTwin == InitTwin /\ [][NextTwin]_vars

\* ------------------------------------------------------- the CI/CD views
\* The orders in which the provider can list the members of S.
Orderings(S) ==
    {q \in [1..Cardinality(S) -> S] : \A i, j \in DOMAIN q : q[i] = q[j] => i = j}

\* A remote call of a render: the operation, its argument, and the exception
\* it raised (None if it returned).
ViewCall(op, arg, error) == [op |-> op, arg |-> arg, error |-> error]

\* An entry of the 'pipelines' list of list_pipelines.
PipelineSummary(p) == [name |-> p.name, version |-> "1"]

\* What cp_client.list_pipelines() can answer: an exception, or the account's
\* pipelines in some order.
ListPipelinesAnswers ==
    {[error |-> ClientError, value |-> <<>>]}
        \cup {[error |-> None, value |-> [i \in DOMAIN q |-> PipelineSummary(q[i])]] :
                q \in Orderings(pipelines)}

\* A stage of get_pipeline_state: the status of its latest execution (None
\* without a latest execution) and the time of its last status change
\* (<<date, hour:minute, second>>, or NoTime).
NoTime == <<>>
StageState(status, lastStatusChange) ==
    [status |-> status, lastStatusChange |-> lastStatusChange]

\* What cp_client.get_pipeline_state can answer: an exception, or the states
\* of the stages.
PipelineStateAnswers ==
    {[error |-> ClientError, stageStates |-> <<>>]}
        \cup {[error |-> None, stageStates |-> ss] : ss \in
                { <<>>,
                  <<StageState("Succeeded", <<"2024-05-01", "10:00", "41">>),
                    StageState("Succeeded", <<"2024-05-01", "10:07", "03">>)>>,
                  <<StageState("Succeeded", <<"2024-05-02", "09:30", "00">>),
                    StageState("Failed", <<"2024-05-02", "09:31", "59">>)>>,
                  <<StageState(None, NoTime),
                    StageState("InProgress", <<"2024-05-03", "18:15", "20">>)>> }}

\* lastStatusChange.strftime("%Y-%m-%d %H:%M")
strftime(t) == t[1] \o " " \o t[2]

\* The status shown for a pipeline: that of the last stage's latest execution.
StatusOf(stageStates) ==
    IF stageStates = <<>> THEN "Unknown"
    ELSE LET exec_status == stageStates[Len(stageStates)].status IN
         CASE exec_status = "Succeeded" -> "Succeeded"
           [] exec_status = "Failed" -> "Failed"
           [] exec_status = "InProgress" -> "In Progress"
           [] exec_status = None -> "Unknown"
           [] OTHER -> exec_status

\* The time shown for a pipeline: the last status change of the first stage
\* that has one.
LastExecutionOf(stageStates) ==
    LET timed == {i \in DOMAIN stageStates : stageStates[i].lastStatusChange # NoTime} IN
    IF timed = {} THEN "Never"
    ELSE strftime(stageStates[CHOOSE i \in timed : \A j \in timed : i <= j].lastStatusChange)

\* Mutant of PipelineRows: a pipeline whose state cannot be read is left out
\* of the table, as the CodeBuild view does with its projects.
RECURSIVE PipelineRows_SkipsFailed(_, _)
PipelineRows_SkipsFailed(listed, state) ==
    IF listed = <<>> THEN <<>>
    ELSE LET pipeline == Head(listed)
             answer == state[pipeline.name]
         IN  (IF answer.error # None
              THEN <<>>
              ELSE <<[Status |-> StatusOf(answer.stageStates),
                      Pipeline |-> pipeline.name,
                      Version |-> pipeline.version,
                      LastExecution |-> LastExecutionOf(answer.stageStates)]>>)
             \o PipelineRows_SkipsFailed(Tail(listed), state)

\* pipeline_data: the loop over the listed pipelines, one
\* get_pipeline_state call and one row each.
RECURSIVE PipelineRows(_, _)
PipelineRows(listed, state) ==
    IF listed = <<>> THEN <<>>
    ELSE LET pipeline == Head(listed)
             answer == state[pipeline.name]
         IN  <<IF answer.error # None
               THEN [Status |-> "Error",
                     Pipeline |-> pipeline.name,
                     Version |-> "N/A",
                     LastExecution |-> "Error loading"]
               ELSE [Status |-> StatusOf(answer.stageStates),
                     Pipeline |-> pipeline.name,
                     Version |-> pipeline.version,
                     LastExecution |-> LastExecutionOf(answer.stageStates)]>>
             \o PipelineRows(Tail(listed), state)

\* The number of listed pipelines whose latest status is `status`.
Counted(listed, state, status) ==
    Cardinality({i \in DOMAIN listed :
        /\ state[listed[i].name].error = None
        /\ StatusOf(state[listed[i].name].stageStates) = status
        /\ state[listed[i].name].stageStates # <<>>})

\* The buttons under the dashboard's table, each with the remote call it makes.
DashboardButtons ==
    [Trigger |-> "start_pipeline_execution", Details |-> "get_pipeline",
     History |-> "list_pipeline_executions"]

\* What the user does under the table: nothing, or one of the buttons on the
\* pipeline chosen in the select box, with the outcome of the button's call
\* (an exception, or for the history whether it is empty).
NoPress == [button |-> None, selected |-> None, error |-> None, empty |-> FALSE]
Presses(names) ==
    {NoPress} \cup
    {p \in [button : DOMAIN DashboardButtons, selected : names,
            error : {None, ClientError}, empty : BOOLEAN] :
        /\ p.empty => p.button = "History"
        /\ p.error # None => p.button = "Trigger"}

\* The message a pressed button leaves.
PressMessage(press) ==
    CASE press.button = None -> None
      [] press.error # None -> "Failed: " \o press.error
      [] press.button = "Trigger" -> "Pipeline '" \o press.selected \o "' triggered!"
      [] press.button = "Details" -> "Pipeline Configuration"
      [] press.button = "History" ->
            IF press.empty THEN "No execution history" ELSE "Execution history"

\* The names of the listed pipelines, in listing order.
NamesOf(listed) == [i \in DOMAIN listed |-> listed[i].name]

\* The set of the elements of a sequence.
Range(q) == {q[i] : i \in DOMAIN q}

\* render_pipeline_dashboard: the page for a listing, the pipelines' states
\* and the user's press. (The two buttons that only show a hint to open the
\* "Create Pipeline" tab are left out.)
Dashboard(listing, state, press) ==
    IF listing.error # None
    THEN Page("dashboard", "Error loading pipelines: " \o listing.error,
              None, None, <<>>, <<>>, <<>>, None)
    ELSE IF listing.value = <<>>
    THEN Page("dashboard", None, "No pipelines yet? Create one in minutes!",
              None, <<>>, <<>>, <<>>, None)
    ELSE LET pipelines_ == listing.value
             n == Len(pipelines_)
         IN  Page("dashboard", None, None,
                  "Found " \o ToString(n) \o " pipeline(s)",
                  << <<"Total Pipelines", n>>,
                     <<"Succeeded", Counted(pipelines_, state, "Succeeded")>>,
                     <<"Failed", Counted(pipelines_, state, "Failed")>>,
                     <<"In Progress", Counted(pipelines_, state, "In Progress")>> >>,
                  PipelineRows(pipelines_, state),
                  NamesOf(pipelines_),
                  PressMessage(press))

\* The remote calls of that render, in order.
DashboardCalls(listing, state, press) ==
    <<ViewCall("list_pipelines", None, listing.error)>>
    \o (IF listing.error # None THEN <<>>
        ELSE [i \in DOMAIN listing.value |->
                ViewCall("get_pipeline_state", listing.value[i].name,
                         state[listing.value[i].name].error)])
    \o (IF listing.error # None \/ press.button = None THEN <<>>
        ELSE <<ViewCall(DashboardButtons[press.button], press.selected, press.error)>>)

\* A render replaces the page; what the page showed before is gone.
Shows(page, remote) ==
    /\ screen' = page
    /\ view_calls' = remote
    /\ earlier_data' = (earlier_data \/ screen.table # <<>> \/ screen.metrics # <<>>)
    /\ UNCHANGED <<cloud, region, now, runs, local, instances, session, inputs, ai>>

\* The Dashboard tab is rendered.
RenderDashboard ==
    \E listing \in ListPipelinesAnswers :
    \E state \in [Range(NamesOf(listing.value)) -> PipelineStateAnswers] :
    \E press \in Presses(Range(NamesOf(listing.value))) :
        Shows(Dashboard(listing, state, press), DashboardCalls(listing, state, press))

\* render_trigger_pipeline: the select box of the listed pipelines and the
\* "Trigger Execution" button.
Trigger(listing, press) ==
    IF listing.error # None
    THEN Page("trigger", "Error: " \o listing.error, None, None, <<>>, <<>>, <<>>, None)
    ELSE IF listing.value = <<>>
    THEN Page("trigger", None,
              "No pipelines available. Create one in the 'Create Pipeline' tab!",
              None, <<>>, <<>>, <<>>, None)
    ELSE Page("trigger", None, None, None, <<>>, <<>>, NamesOf(listing.value),
              CASE press.button = None -> None
                [] press.error # None -> "Failed: " \o press.error
                [] OTHER -> "Pipeline triggered! Execution ID: 0a1b2c3d")

TriggerCalls(listing, press) ==
    <<ViewCall("list_pipelines", None, listing.error)>>
    \o (IF listing.error # None \/ press.button = None THEN <<>>
        ELSE <<ViewCall("start_pipeline_execution", press.selected, press.error)>>)

\* The Trigger tab is rendered.
RenderTriggerPipeline ==
    \E listing \in ListPipelinesAnswers :
    \E press \in {p \in Presses(Range(NamesOf(listing.value))) :
                    p.button \in {None, "Trigger"} /\ ~p.empty} :
        Shows(Trigger(listing, press), TriggerCalls(listing, press))

\* What cb_client.list_projects() can answer: an exception, or the names of
\* the account's projects in some order.
ListProjectsAnswers ==
    {[error |-> ClientError, value |-> <<>>]}
        \cup {[error |-> None, value |-> [i \in DOMAIN q |-> q[i].name]] :
                q \in Orderings(projects)}

\* What cb_client.batch_get_projects(names=[name]) can answer: an exception,
\* no project, or the project with its environment.
BatchGetProjectsAnswers(name) ==
    { [error |-> ClientError, projects |-> <<>>],
      [error |-> None, projects |-> <<>>],
      [error |-> None,
       projects |-> <<[name |-> name,
                       image |-> "aws/codebuild/standard:7.0",
                       computeType |-> "BUILD_GENERAL1_SMALL",
                       created |-> "2024-05-01"]>>] }

\* project_data: the loop over the listed projects; a project whose details
\* cannot be read gets no row.
RECURSIVE ProjectRows(_, _)
ProjectRows(listed, detail) ==
    IF listed = <<>> THEN <<>>
    ELSE LET answer == detail[Head(listed)] IN
         (IF answer.error = None /\ answer.projects # <<>>
          THEN <<[Name |-> answer.projects[1].name,
                  Environment |-> answer.projects[1].image,
                  Compute |-> answer.projects[1].computeType,
                  Created |-> answer.projects[1].created]>>
          ELSE <<>>)
         \o ProjectRows(Tail(listed), detail)

\* render_codebuild
CodeBuild(listing, detail) ==
    IF listing.error # None
    THEN Page("codebuild", "Error: " \o listing.error, None, None, <<>>, <<>>, <<>>, None)
    ELSE IF listing.value = <<>>
    THEN Page("codebuild", None,
              "No CodeBuild projects. Create a pipeline to get started!",
              None, <<>>, <<>>, <<>>, None)
    ELSE Page("codebuild", None, None, None,
              << <<"Total Projects", Len(listing.value)>> >>,
              ProjectRows(listing.value, detail), <<>>, None)

CodeBuildCalls(listing, detail) ==
    <<ViewCall("list_projects", None, listing.error)>>
    \o [i \in DOMAIN listing.value |->
          ViewCall("batch_get_projects", listing.value[i], detail[listing.value[i]].error)]

\* The CodeBuild tab is rendered.
RenderCodeBuild ==
    \E listing \in ListProjectsAnswers :
    \E detail \in {d \in [Range(listing.value) -> UNION {BatchGetProjectsAnswers(n) : n \in Range(listing.value)}] :
                     \A n \in Range(listing.value) : d[n] \in BatchGetProjectsAnswers(n)} :
        Shows(CodeBuild(listing, detail), CodeBuildCalls(listing, detail))

\* An entry of list_stacks.
Stack(name, status) ==
    [StackName |-> name, StackStatus |-> status, CreationTime |-> "2024-04-30"]

\* What cf_client.list_stacks(StackStatusFilter=[...]) can answer: an
\* exception, or the active stacks.
ListStacksAnswers ==
    {[error |-> ClientError, value |-> <<>>]}
        \cup {[error |-> None, value |-> v] : v \in
                { <<>>,
                  <<Stack("network", "CREATE_COMPLETE")>>,
                  <<Stack("network", "UPDATE_COMPLETE"),
                    Stack("demo-svc-infra", "CREATE_IN_PROGRESS")>> }}

\* render_cloudformation
CloudFormation(listing) ==
    IF listing.error # None
    THEN Page("cloudformation", "Error: " \o listing.error, None, None, <<>>, <<>>, <<>>, None)
    ELSE IF listing.value = <<>>
    THEN Page("cloudformation", None, "No active CloudFormation stacks",
              None, <<>>, <<>>, <<>>, None)
    ELSE Page("cloudformation", None, None, None,
              << <<"Active Stacks", Len(listing.value)>> >>,
              [i \in DOMAIN listing.value |->
                 [StackName |-> listing.value[i].StackName,
                  Status |-> listing.value[i].StackStatus,
                  Created |-> listing.value[i].CreationTime]],
              <<>>, None)

\* The CloudFormation tab is rendered.
RenderCloudFormation ==
    \E listing \in ListStacksAnswers :
        Shows(CloudFormation(listing), <<ViewCall("list_stacks", None, listing.error)>>)

\* What cp_client.list_pipeline_executions(maxResults=10) can answer: an
\* exception, or the statuses of the latest executions.
ListExecutionsAnswers ==
    {[error |-> ClientError, value |-> <<>>]}
        \cup {[error |-> None, value |-> v] : v \in
                { <<>>, <<"Succeeded">>, <<"Failed", "Succeeded", "Succeeded">>,
                  <<"InProgress", "Failed">> }}

\* The sum of f over the set S.
RECURSIVE Sum(_, _)
Sum(f, S) ==
    IF S = {} THEN 0
    ELSE LET x == CHOOSE y \in S : TRUE IN f[x] + Sum(f, S \ {x})

\* f"{(successful/(successful+failed)*100):.1f}%", or "N/A" without a
\* finished execution.
SuccessRate(successful, failed) ==
    IF successful + failed > 0
    THEN LET tenths == (successful * 2000 + successful + failed)
                          \div (2 * (successful + failed))
         IN  ToString(tenths \div 10) \o "." \o ToString(tenths % 10) \o "%"
    ELSE "N/A"

\* The four metrics of the analytics view: the executions of the listed
\* pipelines are counted; a pipeline whose executions cannot be read counts
\* for nothing.
AnalyticsMetrics(listed, executions) ==
    LET names == Range(NamesOf(listed))
        count(status) ==
           [n \in names |->
               Cardinality({i \in DOMAIN executions[n].value :
                               status = None \/ executions[n].value[i] = status})]
        successful == Sum(count("Succeeded"), names)
        failed == Sum(count("Failed"), names)
    IN  << <<"Pipelines", Len(listed)>>,
           <<"Total Executions", Sum(count(None), names)>>,
           <<"Success Rate", SuccessRate(successful, failed)>>,
           <<"Failed", failed>> >>

\* Mutant of Analytics: the metrics are put out whether or not the listing
\* succeeded, from an empty list when it failed.
Analytics_MetricsAnyway(listing, executions) ==
    IF listing.error # None
    THEN Page("analytics", "Error: " \o listing.error, None, None,
              AnalyticsMetrics(<<>>, executions), <<>>, <<>>, None)
    ELSE IF listing.value = <<>>
    THEN Page("analytics", None, "No pipelines to analyze. Create one to get started!",
              None, <<>>, <<>>, <<>>, None)
    ELSE Page("analytics", None, None, None,
              AnalyticsMetrics(listing.value, executions), <<>>, <<>>, None)

\* render_analytics
Analytics(listing, executions) ==
    IF listing.error # None
    THEN Page("analytics", "Error: " \o listing.error, None, None, <<>>, <<>>, <<>>, None)
    ELSE IF listing.value = <<>>
    THEN Page("analytics", None, "No pipelines to analyze. Create one to get started!",
              None, <<>>, <<>>, <<>>, None)
    ELSE Page("analytics", None, None, None,
              AnalyticsMetrics(listing.value, executions), <<>>, <<>>, None)

AnalyticsCalls(listing, executions) ==
    <<ViewCall("list_pipelines", None, listing.error)>>
    \o [i \in DOMAIN listing.value |->
          ViewCall("list_pipeline_executions", listing.value[i].name,
                   executions[listing.value[i].name].error)]

\* The Analytics tab is rendered.
RenderAnalytics ==
    \E listing \in ListPipelinesAnswers :
    \E executions \in [Range(NamesOf(listing.value)) -> ListExecutionsAnswers] :
        Shows(Analytics(listing, executions), AnalyticsCalls(listing, executions))

\* An account with a second service next to "demo-svc", made at the console.
TwoServices ==
    [Provisioned EXCEPT
        !.roles = @ \cup {"console-role"},
        !.buckets = @ \cup {"console-artifacts"},
        !.projects = @ \cup {[name |-> "web-shop-build",
                              buildspec |-> get_buildspec("react-app"),
                              serviceRole |-> RoleArn("console-role")]},
        !.pipelines = @ \cup {[name |-> "web-shop", roleArn |-> RoleArn("console-role"),
                               location |-> "console-artifacts", stages |-> <<>>]}]

\* The CI/CD tabs are opened on an account; no pipeline is being created.
InitViews ==
    /\ \E a \in InitialAccounts \cup {TwoServices} :
          /\ roles = a.roles /\ attached = a.attached
          /\ buckets = a.buckets /\ versioned = a.versioned
          /\ projects = a.projects /\ repos = a.repos
          /\ pipelines = a.pipelines
    /\ region = "us-east-1"
    /\ now = 0
    /\ runs = 0
    /\ quick_template = [s \in Sessions |-> None]
    /\ form = [s \in Sessions |-> NoForm]
    /\ banner = [s \in Sessions |-> ""]
    /\ pc = [s \in Sessions |-> "idle"]
    /\ req = [s \in Sessions |-> NoRequest]
    /\ bucket_name = [s \in Sessions |-> None]
    /\ calls = [s \in Sessions |-> <<>>]
    /\ progress = [s \in Sessions |-> <<>>]
    /\ result = [s \in Sessions |-> NoResult]
    /\ NothingRendered
    /\ instances = <<>>

\* The function of one of the read-only tabs runs (a run of the script calls
\* them one after the other, each writing to its own tab).
NextViews ==
    \/ RenderDashboard
    \/ RenderTriggerPipeline
    \/ RenderCodeBuild
    \/ RenderCloudFormation
    \/ RenderAnalytics

SpecViews == InitViews /\ [][NextViews]_vars

\* ------------------------------------------ Operations: instance management
\* An EC2 instance with its Name and Environment tags.
Instance(instance_id, name, state, environment) ==
    [instance_id |-> instance_id, name |-> name, state |-> state,
     environment |-> environment]

\* The fleets of the account: none, or a production web server with a
\* development batch host, running or stopped, the web server's Name tag
\* with or without a colour in parentheses.
Fleets ==
    { <<>>,
      <<Instance("i-0a1", "web", "running", "Production"),
        Instance("i-0b2", "batch", "stopped", "dev")>>,
      <<Instance("i-0a1", "web (blue)", "stopped", "Production"),
        Instance("i-0b2", "batch", "running", "dev")>> }

\* What ec2.describe_instances() can answer: an exception, or the instances.
DescribeInstancesAnswers ==
    {[error |-> ClientError, value |-> <<>>], [error |-> None, value |-> instances]}

\* The options of the "Select Operation" select box.
BulkOperations ==
    {"Start Instances", "Stop Instances", "Reboot Instances", "Terminate Instances",
     "Create AMI Backup", "Apply Tag", "Schedule Operation"}

\* The quick-action buttons an instance's expander shows, by its state.
QuickButtons(state) ==
    (CASE state = "stopped" -> {"Start"}
       [] state = "running" -> {"Stop", "Reboot"}
       [] OTHER -> {})
    \cup {"Metrics", "Console"}

\* The message a quick-action button leaves.
QuickMessage(button, instance_id, selected_region) ==
    CASE button = "Start" -> "Starting instance..."
      [] button = "Stop" -> "Stopping instance..."
      [] button = "Reboot" -> "Rebooting instance..."
      [] button = "Metrics" -> "Opening CloudWatch metrics..."
      [] button = "Console" ->
            "https://" \o selected_region \o ".console.aws.amazon.com/ec2/v2/home?region="
                \o selected_region \o "#Instances:instanceId=" \o instance_id

\* i['environment'].lower(), for the Environment tags of the fleets
lower(environment) ==
    CASE environment = "Production" -> "production"
      [] OTHER -> environment

\* The listed instances that pass the Environment and State filters (the
\* Application and Owner filters are left at 'All').
Filtered(listed, selected_env, selected_state) ==
    SelectSeq(listed, LAMBDA i :
        /\ selected_env = "All" \/ i.environment = selected_env
        /\ selected_state = "All" \/ i.state = selected_state)

\* A text as its pieces around the parentheses in it: the Name tags of the
\* fleets, and f"{i['name']} ({i['instance_id']}) - {i['state']}".
OptionTokens(i) ==
    (CASE i.name = "web (blue)" -> <<"web ", "(", "blue", ")">>
       [] OTHER -> <<i.name>>)
    \o <<" ", "(", i.instance_id, ")", " - ", i.state>>

\* The text of the pieces.
RECURSIVE join(_)
join(tokens) == IF tokens = <<>> THEN "" ELSE Head(tokens) \o join(Tail(tokens))

\* str.split(sep): the parts of the text between the separators.
RECURSIVE split(_, _)
split(tokens, sep) ==
    IF tokens = <<>> THEN << <<>> >>
    ELSE LET rest == split(Tail(tokens), sep) IN
         IF Head(tokens) = sep
         THEN << <<>> >> \o rest
         ELSE << <<Head(tokens)>> \o Head(rest) >> \o Tail(rest)

\* The option of an instance in the "Choose instances" multiselect.
InstanceOption(i) == join(OptionTokens(i))

\* s.split('(')[1].split(')')[0], for an option of the multiselect
SelectedId(option, filtered) ==
    LET i == CHOOSE x \in Range(filtered) : InstanceOption(x) = option IN
    join(split(split(OptionTokens(i), "(")[2], ")")[1])

\* selected_objs: the filtered instances whose id is among those read from
\* the picked options.
SelectedObjs(filtered, picked) ==
    LET selected_ids == {SelectedId(o, filtered) : o \in picked} IN
    SelectSeq(filtered, LAMBDA i : i.instance_id \in selected_ids)

\* Production instances are among the selected ones.
RequiresApproval(selected_objs) ==
    \E k \in DOMAIN selected_objs : lower(selected_objs[k].environment) = "production"

\* The "Execute" button is shown disabled.
ButtonDisabled(selected_objs, approval_reason, approval_checkbox) ==
    RequiresApproval(selected_objs) /\ ~(approval_reason # "" /\ approval_checkbox)

\* The values tried for the Environment and State filters.
FilterChoices == {<<"All", "All">>, <<"Production", "All">>, <<"All", "running">>}

\* The operations of the select box that are tried.
OperationChoices ==
    BulkOperations \cap {"Stop Instances", "Terminate Instances", "Schedule Operation"}

\* What the user does on the page: the two filters, the options picked in
\* the multiselect, the operation, "Execute immediately", the justification
\* and the confirmation (shown when the code finds production instances
\* among the selected ones), and the one button clicked for this run of the
\* script, if any. Widgets that are not shown keep their defaults. (The
\* quick-action buttons are tried with nothing picked in the multiselect.)
ExecuteButton == [button |-> "Execute", instance_id |-> None]
UserInputs(listed) ==
    LET Input(f, picked, operation, execute_now, approval, pressed) ==
            [selected_env |-> f[1], selected_state |-> f[2],
             selected_instance_ids |-> picked, operation |-> operation,
             execute_now |-> execute_now, approval_reason |-> approval[1],
             approval_checkbox |-> approval[2], pressed |-> pressed]
        Unapproved == <<"", FALSE>>
    IN  UNION {
          LET filtered == Filtered(listed, f[1], f[2])
              options == {InstanceOption(filtered[k]) : k \in DOMAIN filtered}
          IN  { Input(f, {}, "Start Instances", FALSE, Unapproved, pressed) :
                  pressed \in {NoButton} \cup UNION {
                      {[button |-> b, instance_id |-> filtered[k].instance_id] :
                          b \in QuickButtons(filtered[k].state)} : k \in DOMAIN filtered} }
              \cup UNION {
                  LET approvals == IF RequiresApproval(SelectedObjs(filtered, picked))
                                   THEN {"", "change 4711"} \X BOOLEAN
                                   ELSE {Unapproved}
                  IN  { Input(f, picked, operation, execute_now, approval, pressed) :
                          operation \in OperationChoices, execute_now \in BOOLEAN,
                          approval \in approvals,
                          pressed \in {NoButton, ExecuteButton} }
                  : picked \in (SUBSET options) \ {{}} }
          : f \in FilterChoices }

\* Mutant of BulkCalls: the operation is carried out.
BulkCalls_Performed(operation, selected_ids) ==
    CASE operation = "Start Instances" -> <<ViewCall("start_instances", selected_ids, None)>>
      [] operation = "Stop Instances" -> <<ViewCall("stop_instances", selected_ids, None)>>
      [] operation = "Reboot Instances" -> <<ViewCall("reboot_instances", selected_ids, None)>>
      [] operation = "Terminate Instances" -> <<ViewCall("terminate_instances", selected_ids, None)>>
      [] operation = "Create AMI Backup" -> <<ViewCall("create_image", selected_ids, None)>>
      [] operation = "Apply Tag" -> <<ViewCall("create_tags", selected_ids, None)>>
      [] OTHER -> <<>>

\* The remote calls of the pressed "Execute" button: none ("Simulation of
\* operation").
BulkCalls(operation, selected_ids) == <<>>

\* The remote calls of a pressed quick-action button: none.
QuickCalls(button, instance_id) == <<>>

\* The provider's instances after a remote call: start, stop and terminate
\* change the state of the instances named; nothing else does.
Ec2Call(fleet, c) ==
    LET to(state) == [k \in DOMAIN fleet |->
                        IF fleet[k].instance_id \in c.arg
                        THEN [fleet[k] EXCEPT !.state = state]
                        ELSE fleet[k]]
    IN  CASE c.error # None -> fleet
          [] c.op = "start_instances" -> to("running")
          [] c.op = "stop_instances" -> to("stopped")
          [] c.op = "terminate_instances" -> to("terminated")
          [] OTHER -> fleet

\* The provider's instances after the remote calls of a render.
RECURSIVE Ec2After(_, _)
Ec2After(fleet, remote) ==
    IF remote = <<>> THEN fleet
    ELSE Ec2After(Ec2Call(fleet, Head(remote)), Tail(remote))

\* f"${cost:,.0f}", for costs below 1,000
Dollars(cost) == "$" \o ToString(cost)

\* The number of the listed instances in a state.
InState(listed, state) == Cardinality({k \in DOMAIN listed : listed[k].state = state})

\* st.button(f"Execute {operation}", disabled=button_disabled) under
\* "if execute_now:" returns True: the button is rendered, enabled and was
\* clicked.
Executed(u, selected_objs) ==
    /\ u.execute_now
    /\ ~ButtonDisabled(selected_objs, u.approval_reason, u.approval_checkbox)
    /\ u.pressed.button = "Execute"

\* _render_instance_management: the page for an answer of describe_instances
\* and the user's inputs. After the success message of a pressed "Execute"
\* the summary's f-string reads selected_account, which is no name of this
\* function: the NameError is caught by the handler of the view, and the
\* instance details are not rendered.
InstanceManagement(answer, u, selected_region) ==
    IF answer.error # None
    THEN Page("instances", "Error loading instances: " \o answer.error,
              None, None, <<>>, <<>>, <<>>, None)
    ELSE IF answer.value = <<>>
    THEN Page("instances", None, "No EC2 instances found in " \o selected_region,
              None, <<>>, <<>>, <<>>, None)
    ELSE LET listed == answer.value
             running == InState(listed, "running")
             filtered == Filtered(listed, u.selected_env, u.selected_state)
             selected_objs == SelectedObjs(filtered, u.selected_instance_ids)
             num_selected == Cardinality(u.selected_instance_ids)
             executed == Executed(u, selected_objs)
         IN  Page("instances",
                  IF executed
                  THEN "Error loading instances: name 'selected_account' is not defined"
                  ELSE None,
                  "Showing " \o ToString(Len(filtered)) \o " of "
                      \o ToString(Len(listed)) \o " instances",
                  CASE executed ->
                          u.operation \o " completed successfully for "
                              \o ToString(num_selected) \o " instance(s)"
                    [] u.selected_instance_ids # {} ->
                          "Selected " \o ToString(num_selected) \o " instance(s)"
                    [] OTHER -> None,
                  << <<"Total Instances", Len(listed)>>,
                     <<"Running", running>>,
                     <<"Stopped", InState(listed, "stopped")>>,
                     <<"Est. Monthly Cost", Dollars(running * 72)>> >>,
                  IF executed THEN <<>>
                  ELSE [k \in DOMAIN filtered |->
                          [instance_id |-> filtered[k].instance_id,
                           name |-> filtered[k].name,
                           state |-> filtered[k].state,
                           environment |-> filtered[k].environment,
                           message |->
                              IF u.pressed.instance_id = filtered[k].instance_id
                              THEN QuickMessage(u.pressed.button, filtered[k].instance_id,
                                                selected_region)
                              ELSE None]],
                  [k \in DOMAIN filtered |-> InstanceOption(filtered[k])],
                  CASE u.selected_instance_ids = {} -> None
                    [] ~u.execute_now -> "Dry Run Mode"
                    [] ButtonDisabled(selected_objs, u.approval_reason, u.approval_checkbox) ->
                          "Execute " \o u.operation \o " (disabled)"
                    [] OTHER -> "Execute " \o u.operation)

\* The remote calls of that render, in order.
InstanceManagementCalls(answer, u) ==
    <<ViewCall("describe_instances", None, answer.error)>>
    \o (IF answer.error # None \/ answer.value = <<>> THEN <<>>
        ELSE LET filtered == Filtered(answer.value, u.selected_env, u.selected_state) IN
             (IF Executed(u, SelectedObjs(filtered, u.selected_instance_ids))
              THEN BulkCalls(u.operation,
                             {SelectedId(o, filtered) : o \in u.selected_instance_ids})
              ELSE <<>>)
             \o (IF u.pressed.instance_id # None
                 THEN QuickCalls(u.pressed.button, u.pressed.instance_id)
                 ELSE <<>>))

\* The Instance Management tab is rendered.
RenderInstanceManagement ==
    \E answer \in DescribeInstancesAnswers :
    \E u \in UserInputs(answer.value) :
        LET remote == InstanceManagementCalls(answer, u) IN
        /\ screen' = InstanceManagement(answer, u, region)
        /\ view_calls' = remote
        /\ earlier_data' = (earlier_data \/ screen.table # <<>> \/ screen.metrics # <<>>)
        /\ instances' = Ec2After(instances, remote)
        /\ inputs' = IF answer.error # None \/ answer.value = <<>> THEN NoInputs ELSE u
        /\ UNCHANGED <<cloud, region, now, runs, local, session, ai>>

\* The Operations module is opened on an account with a region selected.
InitOperations ==
    /\ roles = EmptyAccount.roles /\ attached = EmptyAccount.attached
    /\ buckets = EmptyAccount.buckets /\ versioned = EmptyAccount.versioned
    /\ projects = EmptyAccount.projects /\ repos = EmptyAccount.repos
    /\ pipelines = EmptyAccount.pipelines
    /\ region = "eu-west-1"
    /\ now = 0
    /\ runs = 0
    /\ quick_template = [s \in Sessions |-> None]
    /\ form = [s \in Sessions |-> NoForm]
    /\ banner = [s \in Sessions |-> ""]
    /\ pc = [s \in Sessions |-> "idle"]
    /\ req = [s \in Sessions |-> NoRequest]
    /\ bucket_name = [s \in Sessions |-> None]
    /\ calls = [s \in Sessions |-> <<>>]
    /\ progress = [s \in Sessions |-> <<>>]
    /\ result = [s \in Sessions |-> NoResult]
    /\ NothingRendered
    /\ instances \in Fleets

NextOperations == RenderInstanceManagement

SpecOperations == InitOperations /\ [][NextOperations]_vars

\* ------------------------------------------------ the modules' entrance
\* The values of st.session_state['selected_regions'] the modules can find:
\* a region picked in the sidebar, or 'all', which is also what they take
\* when the key is not set.
SelectableRegions == Regions \cup {"all"}

\* What a run of a module's render is given: whether get_account_manager()
\* returns a manager, the list of get_account_names(), the option of the
\* "Select AWS Account" box, and whether get_session_with_region returns a
\* session.
GateInputs ==
    UNION { { [account_mgr |-> m, account_names |-> names,
               selected_account |-> a, session_ok |-> ok] :
                 m \in BOOLEAN, ok \in BOOLEAN,
                 a \in IF names = <<>> THEN {None} ELSE Range(names) }
            : names \in {<<>>, <<"prod">>, <<"", "prod">>} }

\* What a render of a module leaves: the page with its warning or error, the
\* region note and the tabs (none if the render returned before them), and
\* what it was given and obtained. `selected` is the account of the select
\* box, None if the box was not reached.
Entrance(module, in, selected, error, info, requested, tabs) ==
    [page |-> Page(module, error, info, None, <<>>, <<>>, tabs, None),
     session |-> [module |-> module, account_mgr |-> in.account_mgr,
                  account_names |-> in.account_names,
                  selected_account |-> selected,
                  requested |-> requested, handle |-> tabs # <<>>]]

\* Mutant of CicdModule: the region is not looked at before the session is
\* asked for.
CicdModule_AnyRegion(in, selected_region) ==
    IF ~in.account_mgr
    THEN Entrance("cicd", in, None,
                  "Please configure AWS credentials in Account Management",
                  None, FALSE, <<>>)
    ELSE IF in.account_names = <<>>
    THEN Entrance("cicd", in, None, "No AWS accounts configured", None, FALSE, <<>>)
    ELSE IF in.selected_account = ""
    THEN Entrance("cicd", in, in.selected_account, None,
                  "Region: " \o selected_region, FALSE, <<>>)
    ELSE IF ~in.session_ok
    THEN Entrance("cicd", in, in.selected_account, "Failed to get AWS session",
                  "Region: " \o selected_region, TRUE, <<>>)
    ELSE Entrance("cicd", in, in.selected_account, None,
                  "Region: " \o selected_region, TRUE,
                  <<"Pipeline Dashboard", "Create Pipeline", "Trigger Pipeline",
                    "CodeBuild Projects", "CloudFormation Stacks", "Analytics",
                    "Configuration">>)

\* CICDOrchestrationModule.render
CicdModule(in, selected_region) ==
    IF ~in.account_mgr
    THEN Entrance("cicd", in, None,
                  "Please configure AWS credentials in Account Management",
                  None, FALSE, <<>>)
    ELSE IF in.account_names = <<>>
    THEN Entrance("cicd", in, None, "No AWS accounts configured", None, FALSE, <<>>)
    ELSE IF selected_region = "all"
    THEN Entrance("cicd", in, in.selected_account,
                  "Please select a specific region from sidebar", None, FALSE, <<>>)
    ELSE IF in.selected_account = ""
    THEN Entrance("cicd", in, in.selected_account, None,
                  "Region: " \o selected_region, FALSE, <<>>)
    ELSE IF ~in.session_ok
    THEN Entrance("cicd", in, in.selected_account, "Failed to get AWS session",
                  "Region: " \o selected_region, TRUE, <<>>)
    ELSE Entrance("cicd", in, in.selected_account, None,
                  "Region: " \o selected_region, TRUE,
                  <<"Pipeline Dashboard", "Create Pipeline", "Trigger Pipeline",
                    "CodeBuild Projects", "CloudFormation Stacks", "Analytics",
                    "Configuration">>)

\* OperationsModule.render
OperationsModule(in, selected_region) ==
    IF ~in.account_mgr
    THEN Entrance("operations", in, None, "Configure AWS credentials first",
                  None, FALSE, <<>>)
    ELSE IF in.account_names = <<>>
    THEN Entrance("operations", in, None, "No AWS accounts configured", None, FALSE, <<>>)
    ELSE IF in.selected_account = ""
    THEN Entrance("operations", in, in.selected_account, None, None, FALSE, <<>>)
    ELSE IF selected_region = "all"
    THEN Entrance("operations", in, in.selected_account,
                  "Operations require a specific region. Please select a region from the sidebar.",
                  None, FALSE, <<>>)
    ELSE IF ~in.session_ok
    THEN Entrance("operations", in, in.selected_account,
                  "Failed to get session for " \o in.selected_account \o " in "
                      \o selected_region,
                  "Managing operations in " \o selected_region, TRUE, <<>>)
    ELSE Entrance("operations", in, in.selected_account, None,
                  "Managing operations in " \o selected_region, TRUE,
                  <<"Instance Management", "Automation Builder", "Auto Scaling",
                    "Maintenance Windows", "Patch Management", "Operation History">>)

\* AdvancedOperationsModule.render
AdvancedOperationsModule(in, selected_region) ==
    IF ~in.account_mgr
    THEN Entrance("advanced_operations", in, None, "Configure AWS credentials first",
                  None, FALSE, <<>>)
    ELSE IF in.account_names = <<>>
    THEN Entrance("advanced_operations", in, None, "No AWS accounts configured",
                  None, FALSE, <<>>)
    ELSE IF in.selected_account = ""
    THEN Entrance("advanced_operations", in, in.selected_account, None, None, FALSE, <<>>)
    ELSE IF selected_region = "all"
    THEN Entrance("advanced_operations", in, in.selected_account,
                  "Advanced Operations require a specific region.", None, FALSE, <<>>)
    ELSE IF ~in.session_ok
    THEN Entrance("advanced_operations", in, in.selected_account, "Failed to get session",
                  "Advanced operations in " \o selected_region, TRUE, <<>>)
    ELSE Entrance("advanced_operations", in, in.selected_account, None,
                  "Advanced operations in " \o selected_region, TRUE,
                  <<"Multi-Account Ops", "DR Planning", "Intelligent Automation",
                    "Cost Optimizer", "Security Posture", "Capacity Planning">>)

\* The script runs with a module open: the page is the module's, with the
\* region that the session state holds in this run; the widgets of the tabs
\* are not rendered yet.
Enter(entrance, selected_region) ==
    /\ screen' = entrance.page
    /\ view_calls' = <<>>
    /\ earlier_data' = (earlier_data \/ screen.table # <<>> \/ screen.metrics # <<>>)
    /\ session' = entrance.session
    /\ region' = selected_region
    /\ inputs' = NoInputs
    /\ UNCHANGED <<cloud, now, runs, local, instances, ai>>

\* One of the three modules is rendered up to its tabs.
RenderModule ==
    \E in \in GateInputs : \E selected_region \in SelectableRegions :
        \/ Enter(CicdModule(in, selected_region), selected_region)
        \/ Enter(OperationsModule(in, selected_region), selected_region)
        \/ Enter(AdvancedOperationsModule(in, selected_region), selected_region)

\* The tabs of Advanced Operations: their functions are handed the session
\* and never take a client from it; the first one opens on the account
\* selection.
RenderAdvancedOperationsTabs ==
    Shows(Page("multi_account", None, None,
               "1 account(s) selected",
               <<>>, <<>>, session.account_names, None),
          <<>>)

\* The portal is opened: no region was picked yet.
InitModules ==
    /\ roles = EmptyAccount.roles /\ attached = EmptyAccount.attached
    /\ buckets = EmptyAccount.buckets /\ versioned = EmptyAccount.versioned
    /\ projects = EmptyAccount.projects /\ repos = EmptyAccount.repos
    /\ pipelines = {ForeignPipeline}
    /\ region = "all"
    /\ now = 0
    /\ runs = 0
    /\ quick_template = [s \in Sessions |-> None]
    /\ form = [s \in Sessions |-> NoForm]
    /\ banner = [s \in Sessions |-> ""]
    /\ pc = [s \in Sessions |-> "idle"]
    /\ req = [s \in Sessions |-> NoRequest]
    /\ bucket_name = [s \in Sessions |-> None]
    /\ calls = [s \in Sessions |-> <<>>]
    /\ progress = [s \in Sessions |-> <<>>]
    /\ result = [s \in Sessions |-> NoResult]
    /\ NothingRendered
    /\ instances \in Fleets \ {<<>>}

\* A module is rendered; the tab functions run in the script run in which
\* the module obtained its session. (Of the Operations tabs only Instance
\* Management takes a client; the "Create Pipeline" tab is the subject of
\* Spec.)
NextModules ==
    \/ RenderModule
    \/ /\ session.handle /\ session.module = "cicd"
       /\ \/ RenderDashboard
          \/ RenderTriggerPipeline
          \/ RenderCodeBuild
          \/ RenderCloudFormation
          \/ RenderAnalytics
    \/ /\ session.handle /\ session.module = "operations"
       /\ RenderInstanceManagement
    \/ /\ session.handle /\ session.module = "advanced_operations"
       /\ RenderAdvancedOperationsTabs

SpecModules == InitModules /\ [][NextModules]_vars

\* ============================================================ FinOps: AI
\* modules_finops.py: get_anthropic_client and the two functions that ask
\* the AI service.

\* The API keys of the three places, each its own.
NestedKey == "sk-nested"
FlatKey == "sk-flat"
EnvKey == "sk-env"

\* The deployment: whether a secrets file exists (without one every lookup
\* in st.secrets raises), the values under anthropic.api_key and under
\* ANTHROPIC_API_KEY in it (None: no such entry), the environment variable
\* ANTHROPIC_API_KEY (None: not set), and whether the anthropic package can
\* build a client.
Deployments ==
    UNION { { [secrets_file |-> file, nested |-> nested, flat |-> flat,
               environ |-> environ, installed |-> installed] :
                 nested \in (IF file THEN {None, "", NestedKey} ELSE {None}),
                 flat \in (IF file THEN {None, "", FlatKey} ELSE {None}),
                 environ \in {None, "", EnvKey},
                 installed \in BOOLEAN }
            : file \in BOOLEAN }

\* "not api_key" is false.
HasKey(api_key) == api_key # None /\ api_key # ""

\* The client of a key, and the outcomes of get_anthropic_client that are
\* not a client.
Client(api_key) == "client of " \o api_key
SecretsNotFound == "FileNotFoundError"

\* get_anthropic_client() on a deployment: the client, None, or the
\* exception that leaves the function. The first lookup is inside try/except
\* (38-43), the second is not (45).
get_anthropic_client(d) ==
    LET nested == IF d.secrets_file /\ d.nested # None THEN d.nested ELSE None
    IN  IF ~HasKey(nested) /\ ~d.secrets_file
        THEN SecretsNotFound
        ELSE LET flat == IF ~HasKey(nested) /\ d.flat # None THEN d.flat ELSE nested
                 api_key == IF ~HasKey(flat) THEN d.environ ELSE flat
             IN  IF ~HasKey(api_key) THEN None
                 ELSE IF d.installed THEN Client(api_key)
                 ELSE None

\* @st.cache_resource: the value of the first call that returned is kept.
Cached(client, d) == IF client = NotCached THEN get_anthropic_client(d) ELSE client

\* What client.messages.create() answers: JSON, JSON inside other text, text
\* with braces that is not JSON, plain text, or an exception.
AiAnswers == {"json", "text around json", "braces", "text", "APIError"}

\* The AI function `asked` has run: the cached client, the requests it sent
\* to the service, and what it returned (or the exception that left it).
AiCall(asked, client, max_tokens, output) ==
    [deployment |-> ai.deployment,
     client |-> IF client = SecretsNotFound THEN ai.client ELSE client,
     asked |-> asked,
     requests |-> IF client \in {SecretsNotFound, None} THEN <<>>
                  ELSE <<[client |-> client, model |-> "claude-sonnet-4-20250514",
                          max_tokens |-> max_tokens]>>,
     output |-> output]

\* analyze_costs_with_ai(cost_data, total_cost, service_costs)
AnalyzeCosts ==
    \E answer \in AiAnswers :
        LET client == Cached(ai.client, ai.deployment) IN
        /\ ai' = AiCall("analyze_costs_with_ai", client, 2000,
                    CASE client = SecretsNotFound -> SecretsNotFound
                      [] client = None ->
                            "AI analysis unavailable. Configure ANTHROPIC_API_KEY to enable AI-powered insights."
                      [] answer \in {"json", "text around json"} -> "analysis"
                      [] answer = "text" -> "AI analysis completed but response parsing failed."
                      [] OTHER -> "AI analysis error: " \o answer)
        /\ UNCHANGED <<cloud, region, now, runs, local>>
        /\ UNCHANGED <<instances, screen, view_calls, earlier_data, session, inputs>>

\* natural_language_query(query, cost_data)
NaturalLanguageQuery ==
    \E answer \in AiAnswers :
        LET client == Cached(ai.client, ai.deployment) IN
        /\ ai' = AiCall("natural_language_query", client, 1000,
                    CASE client = SecretsNotFound -> SecretsNotFound
                      [] client = None ->
                            "AI features not available. Please configure ANTHROPIC_API_KEY."
                      [] answer = "APIError" -> "Error processing query: " \o answer
                      [] OTHER -> "answer: " \o answer)
        /\ UNCHANGED <<cloud, region, now, runs, local>>
        /\ UNCHANGED <<instances, screen, view_calls, earlier_data, session, inputs>>

\* An account, no page rendered, any deployment of the keys.
InitAi ==
    /\ roles = {} /\ attached = {} /\ buckets = {} /\ versioned = {}
    /\ projects = {} /\ repos = {} /\ pipelines = {}
    /\ region = "us-east-1"
    /\ now = 0
    /\ runs = 0
    /\ quick_template = [s \in Sessions |-> None]
    /\ form = [s \in Sessions |-> NoForm]
    /\ banner = [s \in Sessions |-> ""]
    /\ pc = [s \in Sessions |-> "idle"]
    /\ req = [s \in Sessions |-> NoRequest]
    /\ bucket_name = [s \in Sessions |-> None]
    /\ calls = [s \in Sessions |-> <<>>]
    /\ progress = [s \in Sessions |-> <<>>]
    /\ result = [s \in Sessions |-> NoResult]
    /\ screen = NoScreen /\ view_calls = <<>> /\ earlier_data = FALSE
    /\ session = NoSession /\ inputs = NoInputs
    /\ instances = <<>>
    /\ \E d \in Deployments : ai = NoAi(d)

NextAi == AnalyzeCosts \/ NaturalLanguageQuery

SpecAi == InitAi /\ [][NextAi]_vars

\* ================================================================ claims
\* The remote calls of session s's run, by position.
CallIndexes(s) == 1..Len(calls[s])
Op(s, i) == calls[s][i][1]
Args(s, i) == calls[s][i][2]
Outcome(s, i) == calls[s][i][3]

\* The positions of the calls of operation op in session s's run.
CallsOf(s, op) == {i \in CallIndexes(s) : Op(s, i) = op}

\* Call i ended the run: nothing was called after it and the run returned.
EndedRun(s, i) == i = Len(calls[s]) /\ pc[s] = "done"

\* The run went on after call i: a later call was made, or the run stands at
\* a later call.
WentOn(s, i) == i < Len(calls[s]) \/ pc[s] \in Running

\* Every pipeline of the request's name at the provider was made by this run:
\* the name was free when the run started.
UniqueName(s) ==
    \A p \in pipelines :
        p.name = req[s].pipeline_name =>
            /\ result[s] = <<TRUE, "Success">>
            /\ p.location = bucket_name[s]

\* Positions a < b < c < d before i of the four prerequisite calls that every
\* run makes: pipeline role, artifact bucket, build role, build project.
FourBefore(s, i) ==
    \E a, b, c, d \in 1..(i - 1) :
        /\ a < b /\ b < c /\ c < d
        /\ Op(s, a) = "create_role"
        /\ Args(s, a)[1] = PipelineRoleName(req[s].pipeline_name)
        /\ Op(s, b) = "create_bucket"
        /\ Op(s, c) = "create_role"
        /\ Args(s, c)[1] = BuildRoleName(req[s].pipeline_name)
        /\ Op(s, d) = "create_project"
        /\ \A e \in CallsOf(s, "create_repository") : d < e /\ e < i

\* The request asks for a new CodeCommit repository.
AsksForRepository(s) ==
    req[s].source_provider = "CodeCommit" /\ req[s].source_config.create_repo

\* The exceptions that stand for "the resource already exists".
AlreadyExists ==
    {EntityAlreadyExistsException, ResourceAlreadyExistsException,
     RepositoryNameExistsException}

\* The calls of step 2.
BucketOps == {"create_bucket", "put_bucket_versioning"}

\* Call i failed with an exception that its step does not ignore.
Fatal(s, i) ==
    /\ Outcome(s, i) # Ok
    /\ Op(s, i) \notin BucketOps
    /\ Outcome(s, i) \notin AlreadyExists

\* C1 as stated: a finished run for a free pipeline name has made all five
\* prerequisite calls, the repository call among them, before its single
\* cp_client.create_pipeline call.
C1_AsStated ==
    \A s \in Sessions :
        (pc[s] = "done" /\ UniqueName(s)) =>
            /\ Cardinality(CallsOf(s, "create_pipeline")) = 1
            /\ \A i \in CallsOf(s, "create_pipeline") :
                  FourBefore(s, i) /\ CallsOf(s, "create_repository") # {}

\* C1 amended: cp_client.create_pipeline is called at most once in a run, as
\* its last call, after the pipeline role, the artifact bucket, the build role
\* and the build project were attempted in that order, and after the
\* repository was attempted exactly when the request asks for a new
\* CodeCommit repository; a finished run without a fatal exception before the
\* last step has called it exactly once.
C1_PrerequisitesBeforePipeline ==
    \A s \in Sessions :
        /\ Cardinality(CallsOf(s, "create_pipeline")) <= 1
        /\ \A i \in CallsOf(s, "create_pipeline") :
              /\ i = Len(calls[s])
              /\ FourBefore(s, i)
              /\ AsksForRepository(s) <=> CallsOf(s, "create_repository") # {}
        /\ (pc[s] = "done" /\ \A i \in CallIndexes(s) : Op(s, i) # "create_pipeline" => ~Fatal(s, i))
              => Cardinality(CallsOf(s, "create_pipeline")) = 1

\* Witness of C1: a finished run for a free name that asked for no repository
\* and called cp_client.create_pipeline.
C1_Witness ==
    \E s \in Sessions :
        /\ pc[s] = "done" /\ UniqueName(s)
        /\ req[s].source_provider = "GitHub"
        /\ CallsOf(s, "create_pipeline") # {}

\* C2: when cp_client.create_pipeline raises PipelineNameInUseException, the
\* run returns (False, "Pipeline name already exists") at once: that call is
\* the run's last remote call and the last progress update stays the one of
\* the repository step.
C2_NameInUseEndsRun ==
    \A s \in Sessions : \A i \in CallsOf(s, "create_pipeline") :
        Outcome(s, i) = PipelineNameInUseException =>
            /\ EndedRun(s, i)
            /\ result[s] = <<FALSE, "Pipeline name already exists">>
            /\ progress[s] = <<20, 40, 60, 80>>

\* Witness of C2: a run whose cp_client.create_pipeline call raised
\* PipelineNameInUseException.
C2_Witness ==
    \E s \in Sessions : \E i \in CallsOf(s, "create_pipeline") :
        Outcome(s, i) = PipelineNameInUseException

\* C3: a create_role call that raises EntityAlreadyExistsException does not
\* end the run: the run goes on to the next call.
C3_RoleExistsContinues ==
    \A s \in Sessions : \A i \in CallsOf(s, "create_role") :
        Outcome(s, i) = EntityAlreadyExistsException =>
            /\ WentOn(s, i)
            /\ i < Len(calls[s]) => Op(s, i + 1) \in {"create_bucket", "get_role"}

\* Witness of C3: a run that returned (True, "Success") after both create_role
\* calls raised EntityAlreadyExistsException.
C3_Witness ==
    \E s \in Sessions :
        /\ result[s] = <<TRUE, "Success">>
        /\ \E i, j \in CallsOf(s, "create_role") :
              /\ i < j
              /\ Outcome(s, i) = EntityAlreadyExistsException
              /\ Outcome(s, j) = EntityAlreadyExistsException

\* The form was submitted with the GitHub source and no access token.
GitHubWithoutToken(f) == f.source_provider = "GitHub" /\ f.github_token = ""

\* C4: a submit of the form with the GitHub source and no access token is
\* rejected: the form shows an error, create_pipeline is not called, no remote
\* call is made and the provider's resources stay as they are.
C4_NoTokenRejected ==
    [][\A s \in Sessions :
          ((RejectForm(s) \/ SubmitForm(s)) /\ GitHubWithoutToken(form'[s])) =>
              /\ cloud' = cloud
              /\ pc'[s] = "idle"
              /\ req'[s] = NoRequest
              /\ calls'[s] = <<>>
              /\ banner'[s] \in {"Pipeline name required", "GitHub URL and token required"}]_vars

\* Witness of C4: the form was submitted with a name, a repository URL and no
\* token, and shows the error.
C4_Witness ==
    \E s \in Sessions :
        /\ GitHubWithoutToken(form[s])
        /\ form[s].pipeline_name # "" /\ form[s].repo_url # ""
        /\ banner[s] = "GitHub URL and token required"

\* All remote calls of session s's run succeeded.
AllSucceeded(s) == \A i \in CallIndexes(s) : Outcome(s, i) = Ok

\* C5: a finished run in which every remote call succeeded has issued the
\* progress updates 20, 40, 60, 80, 100 in that order and returned
\* (True, "Success").
C5_ProgressOfSuccess ==
    \A s \in Sessions :
        (pc[s] = "done" /\ AllSucceeded(s)) =>
            /\ progress[s] = <<20, 40, 60, 80, 100>>
            /\ result[s] = <<TRUE, "Success">>

\* Witness of C5: the run of the request {demo-svc, static-site, new
\* CodeCommit repository, no deploy target} finished with every call
\* succeeding, the repository call among them.
C5_Witness ==
    \E s \in Sessions :
        /\ pc[s] = "done" /\ AllSucceeded(s)
        /\ req[s].pipeline_name = "demo-svc"
        /\ req[s].template_type = "static-site"
        /\ req[s].deploy_target = "None (Build only)"
        /\ \E i \in CallsOf(s, "create_repository") : Outcome(s, i) = Ok

\* The run's calls before the last one all succeeded and the last one is
\* cp_client.create_pipeline raising PipelineNameInUseException.
CollidedAtLastStep(s) ==
    /\ calls[s] # <<>>
    /\ Op(s, Len(calls[s])) = "create_pipeline"
    /\ Outcome(s, Len(calls[s])) = PipelineNameInUseException
    /\ \A i \in 1..(Len(calls[s]) - 1) : Outcome(s, i) = Ok

\* C6: when every prerequisite call succeeded and the pipeline name collided,
\* the run returned (False, "Pipeline name already exists") and what it
\* created is still there: both roles with their policies, the versioned
\* artifact bucket, the build project, and the repository if it was asked for.
C6_NoRollback ==
    \A s \in Sessions :
        CollidedAtLastStep(s) =>
            LET n == req[s].pipeline_name IN
            /\ result[s] = <<FALSE, "Pipeline name already exists">>
            /\ {PipelineRoleName(n), BuildRoleName(n)} \subseteq roles
            /\ {<<PipelineRoleName(n), PipelinePolicyArn>>,
                <<BuildRoleName(n), BuildPolicyArn>>} \subseteq attached
            /\ bucket_name[s] \in buckets \cap versioned
            /\ \E p \in projects : p.name = BuildProjectName(n)
            /\ AsksForRepository(s) => req[s].source_config.repo_name \in repos

\* Witness of C6: such a run, with a repository asked for and created.
C6_Witness ==
    \E s \in Sessions :
        /\ CollidedAtLastStep(s)
        /\ \E i \in CallsOf(s, "create_repository") : Outcome(s, i) = Ok

\* The "already exists" exception that the handler around a call ignores.
IgnoredException(op) ==
    CASE op = "create_role" -> EntityAlreadyExistsException
      [] op = "create_project" -> ResourceAlreadyExistsException
      [] op = "create_repository" -> RepositoryNameExistsException
      [] OTHER -> None

\* The failed calls of session s's run that come before the last step.
FailedPrerequisites(s) ==
    {i \in CallIndexes(s) : Op(s, i) # "create_pipeline" /\ Outcome(s, i) # Ok}

\* C7 as stated: every exception of a prerequisite call is ignored and the run
\* goes on, and a run fails only with the name conflict of the last call.
C7_AsStated ==
    \A s \in Sessions :
        /\ \A i \in FailedPrerequisites(s) : WentOn(s, i)
        /\ (pc[s] = "done" /\ ~result[s][1]) =>
              result[s] = <<FALSE, "Pipeline name already exists">>

\* C7 amended: an exception of any kind raised by create_bucket or
\* put_bucket_versioning is ignored and the run goes on; create_role,
\* create_project and create_repository have only their own "already exists"
\* exception ignored; any other exception of a prerequisite call
\* (attach_role_policy and get_role included) ends the run with
\* (False, <text of the exception>); at the last call the name conflict and
\* any other exception end the run.
C7_IgnoredExceptions ==
    \A s \in Sessions :
        /\ \A i \in FailedPrerequisites(s) :
              IF Op(s, i) \in BucketOps \/ Outcome(s, i) = IgnoredException(Op(s, i))
              THEN WentOn(s, i)
              ELSE EndedRun(s, i) /\ result[s] = <<FALSE, Outcome(s, i)>>
        /\ \A i \in CallsOf(s, "create_pipeline") :
              Outcome(s, i) # Ok =>
                  /\ EndedRun(s, i)
                  /\ result[s] = IF Outcome(s, i) = PipelineNameInUseException
                                 THEN <<FALSE, "Pipeline name already exists">>
                                 ELSE <<FALSE, Outcome(s, i)>>

\* Witness of C7: a run that returned (True, "Success") although its
\* create_bucket call failed with an error that is no "already exists".
C7_Witness ==
    \E s \in Sessions :
        /\ result[s] = <<TRUE, "Success">>
        /\ \E i \in CallsOf(s, "create_bucket") : Outcome(s, i) = ClientError

\* C8 as stated: a finished run has returned a (bool, message) pair, and an
\* exception that is neither an "already exists" exception nor the name
\* conflict of the last call ends the run where it is raised, with
\* (False, <text of the exception>).
C8_AsStated ==
    \A s \in Sessions :
        /\ pc[s] = "done" => (Len(result[s]) = 2 /\ result[s][1] \in BOOLEAN)
        /\ \A i \in CallIndexes(s) :
              Outcome(s, i) \notin
                  ({Ok, PipelineNameInUseException, BucketAlreadyOwnedByYou}
                      \cup AlreadyExists)
                  => EndedRun(s, i) /\ result[s] = <<FALSE, Outcome(s, i)>>

\* C9: the progress updates of a run are within 0..100 and strictly
\* increasing, starting above the 0 the bar is created with.
C9_ProgressIncreases ==
    \A s \in Sessions : \A i \in 1..Len(progress[s]) :
        /\ progress[s][i] \in 0..100
        /\ IF i = 1 THEN 0 < progress[s][i] ELSE progress[s][i - 1] < progress[s][i]

\* Witness of C9: a finished run with a failed call and without the
\* repository step that issued all five updates.
C9_Witness ==
    \E s \in Sessions :
        /\ pc[s] = "done"
        /\ Len(progress[s]) = 5
        /\ ~AllSucceeded(s)
        /\ CallsOf(s, "create_repository") = {}

\* C10 as stated: when the run returned (True, "Success"), the bucket named as
\* the artifactStore location of the pipeline exists at the provider.
C10_AsStated ==
    \A s \in Sessions :
        result[s] = <<TRUE, "Success">> =>
            /\ bucket_name[s] \in buckets
            /\ \E p \in pipelines :
                  p.name = req[s].pipeline_name /\ p.location = bucket_name[s]

\* The successful s3_client.create_bucket calls of session s's run.
CreatedBuckets(s) == {i \in CallsOf(s, "create_bucket") : Outcome(s, i) = Ok}

\* C11 as stated: when a run has returned, every bucket it created is named
\* <pipeline_name>-artifacts-<seconds of a clock reading> and has versioning
\* enabled.
C11_AsStated ==
    \A s \in Sessions :
        pc[s] = "done" =>
            \A i \in CreatedBuckets(s) :
                /\ \E t \in 0..now : Args(s, i)[1] = BucketName(req[s].pipeline_name, t)
                /\ Args(s, i)[1] \in versioned

\* The calls of operation op in session s's run that succeeded: each made one
\* resource.
Created(s, op) == {i \in CallsOf(s, op) : Outcome(s, i) = Ok}

\* The prerequisite resources session s's run has made.
PrerequisitesCreated(s) ==
    Created(s, "create_role") \cup Created(s, "create_bucket")
        \cup Created(s, "create_project") \cup Created(s, "create_repository")

\* C12: when two sessions run create_pipeline for the same pipeline name at
\* once, their remote calls interleaving in any order (no lock is taken; the
\* two runs may compute the same bucket name in the same second), at most one
\* of the runs returns (True, "Success") and the provider never holds two
\* pipelines of that name.
C12_AtMostOneSuccess ==
    /\ \A s, t \in Sessions :
          (/\ s # t
           /\ req[s].pipeline_name = req[t].pipeline_name
           /\ result[s] = <<TRUE, "Success">>) => result[t] # <<TRUE, "Success">>
    /\ \A p, q \in pipelines : p.name = q.name => p = q

\* Witness of C12: two interleaved runs for the same name in the same second:
\* both computed the same bucket name, u1 found the pipeline role made by u2,
\* u2 found the build project made by u1, u1 returned (True, "Success") and u2
\* returned (False, "Pipeline name already exists").
C12_Witness ==
    /\ req["u1"].pipeline_name = req["u2"].pipeline_name
    /\ bucket_name["u1"] = bucket_name["u2"] /\ bucket_name["u1"] # None
    /\ Created("u2", "create_role") # {}
    /\ \E i \in CallsOf("u1", "create_role") : Outcome("u1", i) = EntityAlreadyExistsException
    /\ Created("u1", "create_project") # {}
    /\ \E i \in CallsOf("u2", "create_project") : Outcome("u2", i) = ResourceAlreadyExistsException
    /\ result["u1"] = <<TRUE, "Success">>
    /\ result["u2"] = <<FALSE, "Pipeline name already exists">>

\* C13: a run creates at most two roles (the pipeline role and the build
\* role, each at most once), one bucket, one build project and one
\* repository, so at most five prerequisite resources, and at most one
\* pipeline; a run that returned failure may have created all five.
C13_AtMostFiveAndOne ==
    \A s \in Sessions :
        /\ Cardinality(Created(s, "create_role")) <= 2
        /\ \A i, j \in Created(s, "create_role") : Args(s, i)[1] = Args(s, j)[1] => i = j
        /\ \A i \in Created(s, "create_role") :
              Args(s, i)[1] \in {PipelineRoleName(req[s].pipeline_name),
                                 BuildRoleName(req[s].pipeline_name)}
        /\ Cardinality(Created(s, "create_bucket")) <= 1
        /\ Cardinality(Created(s, "create_project")) <= 1
        /\ Cardinality(Created(s, "create_repository")) <= 1
        /\ Cardinality(PrerequisitesCreated(s)) <= 5
        /\ Cardinality(Created(s, "create_pipeline")) <= 1

\* Witness of C13: a run that created two roles, a bucket, a build project
\* and a repository, and returned failure.
C13_Witness ==
    \E s \in Sessions :
        /\ pc[s] = "done" /\ ~result[s][1]
        /\ Cardinality(PrerequisitesCreated(s)) = 5
        /\ Created(s, "create_repository") # {}
        /\ Created(s, "create_pipeline") = {}

\* C17: whenever a run has returned (True, "Success"), the pipeline role
\* <name>-pipeline-role, the build role <name>-build-role and the build
\* project <name>-build exist at the provider.
C17_SuccessHasRolesAndProject ==
    \A s \in Sessions :
        result[s] = <<TRUE, "Success">> =>
            LET n == req[s].pipeline_name IN
            /\ PipelineRoleName(n) \in roles
            /\ BuildRoleName(n) \in roles
            /\ \E p \in projects : p.name = BuildProjectName(n)

\* Witness of C17: a run that returned (True, "Success") and created neither
\* role nor the build project itself: all three were already there.
C17_Witness ==
    \E s \in Sessions :
        /\ result[s] = <<TRUE, "Success">>
        /\ Created(s, "create_role") = {}
        /\ Created(s, "create_project") = {}
        /\ \E i \in CallsOf(s, "create_project") : Outcome(s, i) = ResourceAlreadyExistsException

\* The run of session s is past step 3: the 60% update was issued.
PastBuildStep(s) == Len(progress[s]) >= 3

\* The run of session s issued the 80% update and reached step 5, whose first
\* call is iam_client.get_role for the pipeline role.
ReachedPipelineStep(s) ==
    /\ Len(progress[s]) >= 4 /\ progress[s][4] = 80
    /\ \/ pc[s] = "get_pipeline_role"
       \/ \E i \in CallsOf(s, "get_role") :
              Args(s, i)[1] = PipelineRoleName(req[s].pipeline_name)

\* C18 as stated: a run past step 3 has called create_repository exactly if
\* the source is CodeCommit and a new repository is asked for, and in every
\* case, once the repository step is over, it has issued the 80% update and
\* reached the pipeline-creation step.
C18_AsStated ==
    \A s \in Sessions :
        (PastBuildStep(s) /\ pc[s] # "create_repository") =>
            /\ AsksForRepository(s) <=> CallsOf(s, "create_repository") # {}
            /\ ReachedPipelineStep(s)

\* C18 amended: create_repository is called exactly if the source is
\* CodeCommit and a new repository is asked for; when the call is skipped,
\* succeeds or raises RepositoryNameExistsException, the run issues the 80%
\* update and reaches the pipeline-creation step; any other exception of the
\* call ends the run with (False, <text of the exception>) at 60%.
C18_RepositoryStep ==
    \A s \in Sessions :
        /\ CallsOf(s, "create_repository") # {} => AsksForRepository(s)
        /\ (PastBuildStep(s) /\ pc[s] # "create_repository") =>
              /\ AsksForRepository(s) <=> CallsOf(s, "create_repository") # {}
              /\ ~AsksForRepository(s) => ReachedPipelineStep(s)
        /\ \A i \in CallsOf(s, "create_repository") :
              IF Outcome(s, i) \in {Ok, RepositoryNameExistsException}
              THEN ReachedPipelineStep(s)
              ELSE /\ EndedRun(s, i)
                   /\ result[s] = <<FALSE, Outcome(s, i)>>
                   /\ progress[s] = <<20, 40, 60>>

\* Witness of C18: a run that returned (True, "Success") after its
\* create_repository call raised RepositoryNameExistsException.
C18_Witness ==
    \E s \in Sessions :
        /\ result[s] = <<TRUE, "Success">>
        /\ \E i \in CallsOf(s, "create_repository") :
              Outcome(s, i) = RepositoryNameExistsException

\* C19: a submit of the form with an empty pipeline name shows "Pipeline name
\* required", does not call create_pipeline, makes no remote call and leaves
\* the provider's resources as they are; a submit that calls create_pipeline
\* has a non-empty name and, for the GitHub source, a repository URL and a
\* token.
C19_EmptyNameRejected ==
    [][\A s \in Sessions :
          (RejectForm(s) \/ SubmitForm(s)) =>
              IF form'[s].pipeline_name = ""
              THEN /\ cloud' = cloud
                   /\ pc'[s] = "idle"
                   /\ req'[s] = NoRequest
                   /\ calls'[s] = <<>>
                   /\ banner'[s] = "Pipeline name required"
              ELSE pc'[s] \in Running =>
                      /\ req'[s].pipeline_name = form'[s].pipeline_name
                      /\ form'[s].source_provider = "GitHub" =>
                            form'[s].repo_url # "" /\ form'[s].github_token # ""]_vars

\* Witness of C19: the form was submitted with an empty name and otherwise
\* complete GitHub values, and shows the error.
C19_Witness ==
    \E s \in Sessions :
        /\ form[s].pipeline_name = ""
        /\ form[s].source_provider = "GitHub"
        /\ form[s].repo_url # "" /\ form[s].github_token # ""
        /\ banner[s] = "Pipeline name required"
        /\ pc[s] = "idle"

\* The stages of the pipeline definition passed by call i of session s's run.
StagesOf(s, i) == Args(s, i)[4]

\* C20: whatever the template, the source and the deploy target, the pipeline
\* definition passed to cp_client.create_pipeline has exactly two stages,
\* "Source" then "Build"; the Build action's input is the Source action's
\* output artifact; the Source action's provider is CodeCommit, with the
\* chosen repository as RepositoryName for the CodeCommit source and None for
\* GitHub and S3; and an accepted definition is stored as passed.
C20_TwoStages ==
    \A s \in Sessions : \A i \in CallsOf(s, "create_pipeline") :
        LET stages == StagesOf(s, i) IN
        /\ Len(stages) = 2
        /\ stages[1].name = "Source" /\ stages[2].name = "Build"
        /\ stages[1].outputArtifacts # <<>>
        /\ stages[2].inputArtifacts = stages[1].outputArtifacts
        /\ stages[1].provider = "CodeCommit"
        /\ stages[1].configuration[1] =
              IF req[s].source_provider = "CodeCommit" THEN form[s].repo_name ELSE None
        /\ stages[2].configuration[1] = BuildProjectName(req[s].pipeline_name)
        /\ Outcome(s, i) = Ok =>
              \E p \in pipelines : p.name = req[s].pipeline_name /\ p.stages = stages

\* Witness of C20: a run from the GitHub source with the docker-app template and
\* the S3 deploy target whose cp_client.create_pipeline call succeeded.
C20_Witness ==
    \E s \in Sessions : \E i \in CallsOf(s, "create_pipeline") :
        /\ Outcome(s, i) = Ok
        /\ req[s].source_provider = "GitHub"
        /\ req[s].template_type = "docker-app"
        /\ req[s].deploy_target = "S3 (Static)"

\* The read-only views of the CI/CD module.
CicdViews == {"dashboard", "trigger", "codebuild", "cloudformation", "analytics"}

\* The listing call of the last render raised an exception.
ListingFailed == view_calls # <<>> /\ view_calls[1].error # None

\* C14: when the listing call of a render of the dashboard, trigger,
\* CodeBuild, CloudFormation or analytics view fails, the page of that render
\* shows the error and nothing else: no table, no metrics, no select box, no
\* other message, whatever an earlier render showed; and the render makes no
\* further remote call.
C14_ListingFailureShowsOnlyError ==
    (screen.view \in CicdViews /\ ListingFailed) =>
        /\ screen.error # None
        /\ screen.table = <<>>
        /\ screen.metrics = <<>>
        /\ screen.options = <<>>
        /\ screen.info = None /\ screen.success = None /\ screen.action = None
        /\ Len(view_calls) = 1

\* Witness of C14: the analytics view is rendered with a failing listing call
\* after an earlier render showed a table or metrics.
C14_Witness ==
    /\ screen.view = "analytics"
    /\ ListingFailed
    /\ earlier_data

\* The get_pipeline_state calls of the last render, in order.
StateCalls == SelectSeq(view_calls, LAMBDA c : c.op = "get_pipeline_state")

\* C15: a dashboard page that shows the table has exactly one row per
\* pipeline of the account, in the order of the listing (the order of the
\* select box and of the get_pipeline_state calls); the row of a pipeline
\* whose get_pipeline_state call failed is the error row, and the rows of the
\* others show their status and version.
C15_OneRowPerPipeline ==
    (screen.view = "dashboard" /\ ~ListingFailed /\ pipelines # {}) =>
        /\ Len(screen.table) = Cardinality(pipelines)
        /\ {screen.table[i].Pipeline : i \in DOMAIN screen.table} = {p.name : p \in pipelines}
        /\ Len(StateCalls) = Len(screen.table)
        /\ \A i \in DOMAIN screen.table :
              /\ screen.table[i].Pipeline = screen.options[i]
              /\ screen.table[i].Pipeline = StateCalls[i].arg
              /\ IF StateCalls[i].error # None
                 THEN /\ screen.table[i].Status = "Error"
                      /\ screen.table[i].Version = "N/A"
                      /\ screen.table[i].LastExecution = "Error loading"
                 ELSE /\ screen.table[i].Status \in
                            {"Succeeded", "Failed", "In Progress", "Unknown"}
                      /\ screen.table[i].Version = "1"
                      /\ screen.table[i].LastExecution # "Error loading"

\* Witness of C15: a dashboard page of two rows, the first an error row and
\* the second showing a pipeline that succeeded.
C15_Witness ==
    /\ screen.view = "dashboard"
    /\ Len(screen.table) = 2
    /\ StateCalls[1].error # None
    /\ screen.table[1].Status = "Error"
    /\ screen.table[2].Status = "Succeeded"

\* C16: a render of Instance Management, whatever bulk operation is executed
\* or quick-action button pressed in it, makes the one remote call
\* describe_instances and leaves the provider's instances and their states as
\* they were.
C16_NoStateChangingCall ==
    [][screen'.view = "instances" =>
          /\ instances' = instances
          /\ Len(view_calls') = 1
          /\ \A k \in DOMAIN view_calls' : view_calls'[k].op = "describe_instances"]_vars

\* Witness of C16: after earlier renders, "Terminate Instances" was executed
\* for both instances and reported as completed, and an instance is running.
C16_Witness ==
    /\ screen.view = "instances"
    /\ screen.success = "Terminate Instances completed successfully for 2 instance(s)"
    /\ earlier_data
    /\ \E k \in DOMAIN instances : instances[k].state = "running"

\* The run of u2 is a second run with the same request after a successful
\* run: u1's run returned (True, "Success") before u2 submitted the same
\* values.
SecondAfterSuccess ==
    /\ result["u1"] = <<TRUE, "Success">>
    /\ req["u2"] = req["u1"]

\* What a step of such a second run leaves as it is: the roles, the policy
\* attachments, the build projects, the repositories and the pipelines; the
\* step adds at most the run's artifact bucket.
SecondRunFrame ==
    (SecondAfterSuccess /\ pc["u2"] \in Running) =>
        /\ roles' = roles
        /\ attached' = attached
        /\ projects' = projects
        /\ repos' = repos
        /\ pipelines' = pipelines
        /\ buckets \subseteq buckets'
        /\ buckets' \subseteq buckets \cup {bucket_name'["u2"]}

\* A call of session s's run outside the bucket step failed for a reason
\* other than "already exists".
OtherError(s) ==
    \E i \in CallIndexes(s) : Op(s, i) \notin BucketOps /\ Outcome(s, i) = ClientError

\* C21 as stated: a second run with the same request after a successful run
\* returns (False, "Pipeline name already exists"), and no step of it changes
\* the provider's roles, policy attachments, build projects, repositories or
\* pipelines; it adds at most its artifact bucket.
C21_AsStated ==
    /\ []((SecondAfterSuccess /\ pc["u2"] = "done") =>
             result["u2"] = <<FALSE, "Pipeline name already exists">>)
    /\ [][SecondRunFrame]_vars

\* C21 amended: no step of such a second run changes the provider's roles,
\* policy attachments, build projects, repositories or pipelines, and it adds
\* at most its artifact bucket; the run never returns (True, "Success"); it
\* makes no attach_role_policy call; it returns
\* (False, "Pipeline name already exists") with the progress at 80 unless
\* one of its calls outside the bucket step failed for another reason, and
\* then it returns (False, <text of that exception>).
C21_SecondRun ==
    /\ []((SecondAfterSuccess /\ pc["u2"] = "done") =>
             /\ CallsOf("u2", "attach_role_policy") = {}
             /\ IF OtherError("u2")
                THEN result["u2"] = <<FALSE, ClientError>>
                ELSE /\ result["u2"] = <<FALSE, "Pipeline name already exists">>
                     /\ progress["u2"] = <<20, 40, 60, 80>>)
    /\ [][SecondRunFrame]_vars

\* Witness of C21: the second run returned
\* (False, "Pipeline name already exists") and added an artifact bucket next
\* to the one of the first run.
C21_Witness ==
    /\ SecondAfterSuccess
    /\ result["u2"] = <<FALSE, "Pipeline name already exists">>
    /\ bucket_name["u2"] # bucket_name["u1"]
    /\ {bucket_name["u1"], bucket_name["u2"]} \subseteq buckets
    /\ AsksForRepository("u2")

\* C22 as stated: starting from an account without roles, whenever a run has
\* returned (True, "Success"), the pipeline role has the pipeline access
\* policy attached and the build role has the build access policy attached.
C22_AsStated ==
    \A s \in Sessions :
        result[s] = <<TRUE, "Success">> =>
            LET n == req[s].pipeline_name IN
            /\ <<PipelineRoleName(n), PipelinePolicyArn>> \in attached
            /\ <<BuildRoleName(n), BuildPolicyArn>> \in attached

\* The progress updates a run has issued when call i, the last one it made,
\* failed and ended it: those of the steps completed before call i.
UpdatesBefore(s, i) ==
    LET n == req[s].pipeline_name
        first == Args(s, i)[1]
    IN  CASE Op(s, i) \in {"create_role", "attach_role_policy"}
                /\ first = PipelineRoleName(n) -> <<>>
          [] Op(s, i) \in {"create_role", "attach_role_policy", "get_role"}
                /\ first = BuildRoleName(n) -> <<20, 40>>
          [] Op(s, i) = "create_project" -> <<20, 40>>
          [] Op(s, i) = "create_repository" -> <<20, 40, 60>>
          [] Op(s, i) = "get_role" /\ first = PipelineRoleName(n) -> <<20, 40, 60, 80>>
          [] Op(s, i) = "create_pipeline" -> <<20, 40, 60, 80>>

\* C23: a run has issued the 100% update exactly if it returned
\* (True, "Success"), as its last update; a run that returned failure has
\* issued the updates of the steps completed before the failing call and no
\* other, so its last update is that of the last completed step: 80 when the
\* pipeline name is in use, none (the bar stays at 0) when step 1 failed.
C23_FullBarIffSuccess ==
    \A s \in Sessions :
        /\ (\E k \in DOMAIN progress[s] : progress[s][k] = 100)
              <=> result[s] = <<TRUE, "Success">>
        /\ result[s] = <<TRUE, "Success">> => progress[s][Len(progress[s])] = 100
        /\ (pc[s] = "done" /\ result[s] # <<TRUE, "Success">>) =>
              /\ Outcome(s, Len(calls[s])) # Ok
              /\ progress[s] = UpdatesBefore(s, Len(calls[s]))
              /\ result[s] = <<FALSE, "Pipeline name already exists">> =>
                    progress[s][Len(progress[s])] = 80

\* Witness of C23: a run that failed in step 3, at get_role for the build
\* role, with the bar at 40.
C23_Witness ==
    \E s \in Sessions :
        /\ pc[s] = "done" /\ ~result[s][1]
        /\ Op(s, Len(calls[s])) = "get_role"
        /\ progress[s] = <<20, 40>>

\* The requests of sessions s and t differ in the deploy target and in
\* nothing else.
DifferOnlyInDeployTarget(s, t) ==
    /\ req[s] # NoRequest /\ req[t] # NoRequest
    /\ req[s].deploy_target # req[t].deploy_target
    /\ [req[s] EXCEPT !.deploy_target = req[t].deploy_target] = req[t]

\* The provider answered the first k calls of session s's run as it answered
\* those of session t's run.
SameAnswers(s, t, k) ==
    /\ k <= Len(calls[t])
    /\ \A j \in 1..k : Outcome(s, j) = Outcome(t, j)

\* C24: of two runs of create_pipeline from the same provider state at the
\* same time whose requests differ only in the deploy target, the second
\* makes, as long as the provider answers as it answered the first, the same
\* remote calls with the same arguments in the same order, issues the same
\* progress updates and returns the same pair, and the form shows the same
\* message.
C24_DeployTargetHasNoEffect ==
    DifferOnlyInDeployTarget("u2", "u1") =>
        /\ \A i \in CallIndexes("u2") :
              SameAnswers("u2", "u1", i - 1) =>
                  /\ i <= Len(calls["u1"])
                  /\ Op("u2", i) = Op("u1", i)
                  /\ Args("u2", i) = Args("u1", i)
        /\ (pc["u2"] = "done" /\ SameAnswers("u2", "u1", Len(calls["u2"]))) =>
              /\ Len(calls["u2"]) = Len(calls["u1"])
              /\ result["u2"] = result["u1"]
              /\ progress["u2"] = progress["u1"]
              /\ banner["u2"] = banner["u1"]

\* Witness of C24: a run without deploy target and a run deploying to ECS,
\* with a new repository, got the same answers and both returned
\* (True, "Success").
C24_Witness ==
    /\ DifferOnlyInDeployTarget("u2", "u1")
    /\ req["u1"].deploy_target = "None (Build only)"
    /\ req["u2"].deploy_target = "ECS"
    /\ pc["u2"] = "done"
    /\ SameAnswers("u2", "u1", Len(calls["u2"]))
    /\ result["u2"] = <<TRUE, "Success">>
    /\ Created("u2", "create_repository") # {}

\* The modules behind the entrance.
Modules == {"cicd", "operations", "advanced_operations"}

\* C25: a module asks for a session only when it was given an account
\* manager and at least one account, an account is selected and the region
\* is a specific one; it shows its tabs only with the session it obtained;
\* provider calls are made only by tabs so opened; and while the region is
\* 'all', no session is asked for, no tab is rendered and no provider call is
\* made.
C25_SessionOnlyWithAccountAndRegion ==
    /\ session.requested =>
          /\ session.account_mgr
          /\ session.account_names # <<>>
          /\ session.selected_account \in Range(session.account_names)
          /\ session.selected_account # ""
          /\ region \in Regions
    /\ session.handle => session.requested
    /\ (screen.view \in Modules /\ screen.options # <<>>) => session.handle
    /\ screen.view \notin Modules \cup {None} => session.handle
    /\ view_calls # <<>> => session.handle
    /\ region = "all" =>
          /\ ~session.requested
          /\ screen.view \in Modules \cup {None}
          /\ screen.options = <<>>
          /\ view_calls = <<>>

\* Witness of C25: after tabs had shown data, the CI/CD module is rendered
\* with accounts and with the region back at 'all': it shows the region
\* error and nothing else.
C25_Witness ==
    /\ region = "all"
    /\ earlier_data
    /\ screen.view = "cicd"
    /\ screen.error = "Please select a specific region from sidebar"
    /\ session.account_mgr /\ session.selected_account = "prod"

\* ---------------------------------------------------------------------
\* C26
\* ---------------------------------------------------------------------

\* The instances that the user selected: those whose option is picked in
\* "Choose instances".
PickedInstances ==
    {instances[k] : k \in {j \in DOMAIN instances :
                             InstanceOption(instances[j]) \in inputs.selected_instance_ids}}

\* What the bulk operation needs before it may be executed.
MayExecute ==
    /\ inputs.execute_now
    /\ (\E i \in PickedInstances : lower(i.environment) = "production")
           => (inputs.approval_reason # "" /\ inputs.approval_checkbox)

\* The page reports the bulk operation as executed.
ShowsExecution ==
    /\ screen.view = "instances"
    /\ inputs.selected_instance_ids # {}
    /\ screen.success = inputs.operation \o " completed successfully for "
                          \o ToString(Cardinality(inputs.selected_instance_ids))
                          \o " instance(s)"

\* C26 (as stated): a bulk operation is executed only when "Execute
\* immediately" is checked and, if any selected instance has environment
\* "production" in any case of the letters, a justification is entered and
\* the confirmation box is checked; otherwise the execute control is absent
\* or disabled.
C26_AsStated ==
    /\ ShowsExecution => MayExecute
    /\ (screen.view = "instances" /\ inputs.selected_instance_ids # {} /\ ~MayExecute)
           => screen.action \in {"Dry Run Mode",
                                 "Execute " \o inputs.operation \o " (disabled)"}

\* ---------------------------------------------------------------------
\* C27
\* ---------------------------------------------------------------------

\* The messages of a submission that the form turns down.
ValidationErrors == {"Pipeline name required", "GitHub URL and token required"}

\* Where session s stands, the form and the template agree.
TemplateOf(s) ==
    /\ quick_template[s] \in Templates \cup {None}
    /\ pc[s] \in Running =>
          quick_template[s] \in Templates /\ quick_template[s] = req[s].template_type
    /\ banner[s] \in ValidationErrors => quick_template[s] \in Templates
    /\ pc[s] = "done" =>
          IF result[s][1]
          THEN quick_template[s] = None
          ELSE quick_template[s] \in Templates /\ quick_template[s] = req[s].template_type

\* What a step of session s does to the template.
TemplateStep(s) ==
    /\ (pc[s] \notin Running /\ pc'[s] \in Running) => quick_template[s] \in Templates
    /\ banner'[s] \in ValidationErrors =>
          quick_template[s] \in Templates /\ quick_template'[s] = quick_template[s]
    /\ (pc'[s] = "done" /\ ~result'[s][1]) => quick_template'[s] = quick_template[s]
    /\ quick_template'[s] # quick_template[s] =>
          \/ quick_template'[s] \in Templates /\ pc[s] \notin Running /\ pc'[s] = "idle"
          \/ /\ quick_template'[s] = None
             /\ pc[s] \in Running /\ pc'[s] = "done"
             /\ result'[s] = <<TRUE, "Success">>

\* C27: the form is submitted only while quick_template holds one of the six
\* template names; a run that succeeds resets quick_template to None, and a
\* run that fails or a submission that is turned down leaves it as it was.
C27_FormFollowsTemplate ==
    /\ [](\A s \in Sessions : TemplateOf(s))
    /\ [][\A s \in Sessions : TemplateStep(s)]_vars

\* A run for the Docker template has succeeded and the template is reset.
C27_Witness ==
    /\ pc["u1"] = "done"
    /\ result["u1"] = <<TRUE, "Success">>
    /\ req["u1"].template_type = "docker-app"
    /\ quick_template["u1"] = None

\* ---------------------------------------------------------------------
\* C28
\* ---------------------------------------------------------------------

\* The templates with a build script of their own, and names that no button
\* offers.
OwnScript == {"python-app", "nodejs-api", "static-site"}
UnofferedNames == {"", "go-app", None}

\* The script that the claim gives a template name.
ClaimedScript(t) == IF t \in OwnScript THEN buildspecs[t] ELSE buildspecs["static-site"]

\* The create_project calls of the run of session s.
ProjectCalls(s) == {k \in DOMAIN calls[s] : calls[s][k][1] = "create_project"}

\* C28: get_buildspec gives 'python-app', 'nodejs-api' and 'static-site'
\* each its own build script and every other template name the script of
\* 'static-site'; the build project of a run is created with that script,
\* whatever the template of the run.
C28_ScriptOfTemplate ==
    /\ \A t \in OwnScript : \A u \in OwnScript \ {t} : get_buildspec(t) # get_buildspec(u)
    /\ \A t \in Templates \cup UnofferedNames : get_buildspec(t) = ClaimedScript(t)
    /\ \A s \in Sessions :
          /\ \A k \in ProjectCalls(s) :
                calls[s][k][2][2] = ClaimedScript(req[s].template_type)
          /\ pc[s] \in {"create_repository", "get_pipeline_role", "create_pipeline"}
                => ProjectCalls(s) # {}

\* The build project of a Java run was created with the static-site script.
C28_Witness ==
    /\ req["u1"] # NoRequest
    /\ req["u1"].template_type = "java-spring"
    /\ \E k \in ProjectCalls("u1") :
          /\ calls["u1"][k][2][2] = buildspecs["static-site"]
          /\ calls["u1"][k][3] = Ok

\* ---------------------------------------------------------------------
\* C29
\* ---------------------------------------------------------------------

\* The first key that is present, in the order nested secret, flat secret,
\* environment variable; None if no place has one.
FirstKey(d) ==
    IF HasKey(d.nested) THEN d.nested
    ELSE IF HasKey(d.flat) THEN d.flat
    ELSE IF HasKey(d.environ) THEN d.environ
    ELSE None

\* The fixed answer of an AI function that has no client.
Unavailable(asked) ==
    IF asked = "analyze_costs_with_ai"
    THEN "AI analysis unavailable. Configure ANTHROPIC_API_KEY to enable AI-powered insights."
    ELSE "AI features not available. Please configure ANTHROPIC_API_KEY."

\* C29 (as stated): once an AI function has run, the client is the one of
\* the first present key in the order nested secret, flat secret,
\* environment variable; when no key is present there is no client, and the
\* function has returned its "unavailable" answer without a request to the
\* AI service.
C29_AsStated ==
    ai.asked # None =>
        IF FirstKey(ai.deployment) # None
        THEN ai.deployment.installed => ai.client = Client(FirstKey(ai.deployment))
        ELSE /\ ai.client = None
             /\ ai.requests = <<>>
             /\ ai.output = Unavailable(ai.asked)

====
